---------------------------- MODULE Spec2Model ----------------------------
(***************************************************************************)
(* Model of the PDF text extraction core of                                *)
(* rag-pipeline/data-engineering/main.py: the fragment collector, the      *)
(* two-column gutter detector, the row assembler, the OCR fallback, the    *)
(* orphan-enumerator cleaner and the per-document extraction loop; and of  *)
(* rag-pipeline/pinecone-embedding/src/rag_ingest: upsert.py,              *)
(* embed_dense.py and s3_loader.py.                                        *)
(*                                                                         *)
(* Specifications: Spec (extraction loop), SpecColumns and SpecLayout      *)
(* (page_text_layout on pages with distinct y values, and on pages with    *)
(* shared y values or malformed entries), SpecRows (_sort_items),          *)
(* SpecCleaner (remove_orphan_enumerators), SpecUpsert (upsert),           *)
(* SpecVectors (upsert and build_vectors_from_df), SpecEmbed (embed_dense) *)
(* and SpecS3 (load_parquet_from_s3 in prefix mode).                       *)
(*                                                                         *)
(* Representation.                                                         *)
(*   - A Python str is a sequence of one-character strings.                *)
(*   - A Python dict is a TLA+ record; a missing key is a field that is    *)
(*     not in the DOMAIN of the record (see Get).                          *)
(*   - Coordinates are integers counting thousandths of a point, so 2.0    *)
(*     points is 2000 and round(x, 2) rounds to a multiple of 10.          *)
(*   - Ratios (0.12, 0.15, 0.35, 0.65, 0.08) are integers counting         *)
(*     hundredths; every comparison is cross-multiplied and exact.  The    *)
(*     code's floating-point comparisons decide the same way on every     *)
(*     page of ColumnPages, LayoutPages and DocPages (0.35 * 700,         *)
(*     which is 244.99999999999997, differs from the exact one only for   *)
(*     a midpoint lying exactly on a threshold).                          *)
(***************************************************************************)
EXTENDS Integers, Sequences, FiniteSets, TLC

\* Op(v) with v evaluated once: the binding of a local variable.
Bind(v, Op(_)) == CHOOSE r \in {Op(x) : x \in {v}} : TRUE

(***************************************************************************)
(* Tunables (main.py lines 53-71).                                         *)
(***************************************************************************)
MIN_TEXT_LEN == 60
MIN_GAP_RATIO == 12
EDGE_MARGIN_RATIO == 15
\* MIN_BLOCKS_PER_COLUMN set one lower.
MIN_BLOCKS_PER_COLUMN_Lower == 4 - 1

MIN_BLOCKS_PER_COLUMN == 4
GUTTER_MID_BAND == <<35, 65>>
TRIM_TOP_BOTTOM_RATIO == 8
Y_TOL == 2000
APPLY_ENUMERATOR_CLEAN == TRUE

(***************************************************************************)
(* Python built-ins used by the code.                                      *)
(***************************************************************************)
\* str.isspace() characters that occur in the modelled texts.
Whitespace == {" ", "\t", "\n", "\r", "\f"}

\* Line boundaries of str.splitlines() that occur in the modelled texts.
LineBreaks == {"\n", "\r", "\f"}

Digits == {"0", "1", "2", "3", "4", "5", "6", "7", "8", "9"}

RomanLetters == {"i", "v", "x", "l", "c", "d", "m",
                 "I", "V", "X", "L", "C", "D", "M"}

Letters == RomanLetters \cup
           {"a", "b", "e", "f", "g", "h", "j", "k", "n", "o", "p", "q",
            "r", "s", "t", "u", "w", "y", "z",
            "A", "B", "E", "F", "G", "H", "J", "K", "N", "O", "P", "Q",
            "R", "S", "T", "U", "W", "Y", "Z"}

\* dict.get(k, default)
Get(d, k, default) == IF k \in DOMAIN d THEN d[k] ELSE default

Max(a, b) == IF a >= b THEN a ELSE b

Abs(a) == IF a >= 0 THEN a ELSE -a

RECURSIVE Pow2(_)
Pow2(n) == IF n = 0 THEN 1 ELSE 2 * Pow2(n - 1)

\* <<1, ..., n>>
Indices(n) == [j \in 1..n |-> j]

\* The indices of the characters of s that are not whitespace, ascending.
NonSpace(s) == SelectSeq(Indices(Len(s)), LAMBDA j : s[j] \notin Whitespace)

\* str.lstrip()
LStrip(s) == LET ns == NonSpace(s)
             IN  IF ns = <<>> THEN <<>> ELSE SubSeq(s, ns[1], Len(s))

\* str.rstrip()
RStrip(s) == LET ns == NonSpace(s)
             IN  IF ns = <<>> THEN <<>> ELSE SubSeq(s, 1, ns[Len(ns)])

\* str.strip()
Strip(s) == LET ns == NonSpace(s)
            IN  IF ns = <<>> THEN <<>> ELSE SubSeq(s, ns[1], ns[Len(ns)])

\* s.replace("\r\n", "\n"): every "\r" that a "\n" follows is dropped.
ReplaceCRLF(s) ==
    LET kept == SelectSeq(Indices(Len(s)),
                    LAMBDA j : ~(s[j] = "\r" /\ j < Len(s) /\ s[j + 1] = "\n"))
    IN  [j \in 1..Len(kept) |-> s[kept[j]]]

\* s.replace("\r", "\n")
ReplaceCR(s) == [j \in 1..Len(s) |-> IF s[j] = "\r" THEN "\n" ELSE s[j]]

\* s.replace("\r\n", "\n").replace("\r", "\n")
NormalizeNewlines(s) == ReplaceCR(ReplaceCRLF(s))

\* str.splitlines(): "\r\n" is one line boundary, and there is no empty
\* last line after a final line boundary.
SplitLines(s) ==
    LET n == Len(s)
        \* where a line boundary starts
        starts == SelectSeq(Indices(n),
                      LAMBDA j : /\ s[j] \in LineBreaks
                                 /\ ~(s[j] = "\n" /\ j > 1 /\ s[j - 1] = "\r"))
        m == Len(starts)
        \* the last character of the boundary starting at j
        BreakEnd(j) == IF s[j] = "\r" /\ j < n /\ s[j + 1] = "\n"
                       THEN j + 1 ELSE j
        LineStart(k) == IF k = 1 THEN 1 ELSE BreakEnd(starts[k - 1]) + 1
        closed == [k \in 1..m |-> SubSeq(s, LineStart(k), starts[k] - 1)]
        rest == SubSeq(s, LineStart(m + 1), n)
    IN  IF rest = <<>> THEN closed ELSE Append(closed, rest)

RECURSIVE JoinFrom(_, _, _, _)
JoinFrom(sep, parts, j, acc) ==
    IF j > Len(parts) THEN acc
    ELSE Bind(IF j = 1 THEN parts[1] ELSE acc \o sep \o parts[j],
              LAMBDA acc2 : JoinFrom(sep, parts, j + 1, acc2))

\* sep.join(parts)
Join(sep, parts) == Bind(parts, LAMBDA ps : JoinFrom(sep, ps, 1, <<>>))

\* "".join(parts), and the concatenation of lists
Concat(parts) == Join(<<>>, parts)

\* [s[j] for j in 1..Len(s) if keep[j]]
Filter(s, keep) ==
    Bind(SelectSeq(Indices(Len(s)), LAMBDA j : keep[j]), LAMBDA idx :
      [j \in 1..Len(idx) |-> s[idx[j]]])

(***************************************************************************)
(* Enumerator cleaner (main.py lines 237-271).                             *)
(***************************************************************************)
AllIn(s, S) == \A i \in 1..Len(s) : s[i] \in S

\* _BARE_ENUM_RE.match(s) for a stripped s: one of
\*   [A-Z]\.  \([A-Za-z]\)  \d+\.  \([0-9]{1,3}\)  [ivxlcdm]+\.  \([ivxlcdm]+\)
\* under re.IGNORECASE, followed by \s*$.
BareEnumMatch(s) ==
    LET n == Len(s)
        inner == SubSeq(s, 2, n - 1)
        body == SubSeq(s, 1, n - 1)
    IN  \/ n = 2 /\ s[1] \in Letters /\ s[2] = "."
        \/ n = 3 /\ s[1] = "(" /\ s[2] \in Letters /\ s[3] = ")"
        \/ n >= 2 /\ s[n] = "." /\ AllIn(body, Digits)
        \/ n >= 3 /\ n <= 5 /\ s[1] = "(" /\ s[n] = ")" /\ AllIn(inner, Digits)
        \/ n >= 2 /\ s[n] = "." /\ AllIn(body, RomanLetters)
        \/ n >= 3 /\ s[1] = "(" /\ s[n] = ")" /\ AllIn(inner, RomanLetters)

is_bare_enum(s) == BareEnumMatch(Strip(s))

\* The index of the first line at or after j that is not blank, 0 for None.
next_nonempty(lines, j) ==
    LET K == {k \in j..Len(lines) : Strip(lines[k]) # <<>>}
    IN  IF K = {} THEN 0 ELSE CHOOSE k \in K : \A m \in K : k <= m

\* Keeps with a bare enumerator kept when no non-blank line follows it.
KeepsWhenNothingFollows(lines, j) ==
    IF is_bare_enum(lines[j])
    THEN Bind(next_nonempty(lines, j + 1), LAMBDA k :
           k = 0 \/ ~is_bare_enum(Strip(lines[k])))
    ELSE TRUE

\* Keeps with a bare enumerator kept whenever a non-blank line follows it,
\* a bare enumerator or not.
KeepsBeforeEnumerator(lines, j) ==
    IF is_bare_enum(lines[j])
    THEN Bind(next_nonempty(lines, j + 1), LAMBDA k : k # 0)
    ELSE TRUE

\* Whether the while loop of lines 255-270 appends line j to out.
Keeps(lines, j) ==
    IF is_bare_enum(lines[j])
    THEN Bind(next_nonempty(lines, j + 1), LAMBDA k :
           k # 0 /\ ~is_bare_enum(Strip(lines[k])))
    ELSE TRUE

\* CleanLines with the blank lines left out as well.
CleanLinesWithoutBlank(lines) ==
    Filter(lines, [j \in 1..Len(lines) |->
                     Keeps(lines, j) /\ Strip(lines[j]) # <<>>])

\* out after the while loop
CleanLines(lines) ==
    Filter(lines, [j \in 1..Len(lines) |-> Keeps(lines, j)])

remove_orphan_enumerators(text) ==
    Bind(SplitLines(text), LAMBDA lines : Join(<<"\n">>, CleanLines(lines)))

(***************************************************************************)
(* Sorting: Python's sorted / list.sort are stable.  Elements are pairs    *)
(* <<key, value>> whose key is a pair of integers compared as a tuple.     *)
(***************************************************************************)
KeyLess(a, b) == a[1] < b[1] \/ (a[1] = b[1] /\ a[2] < b[2])

\* The place of every element after a stable sort: an element comes after
\* those with a smaller key and after the earlier ones with its key.
Rank(ps) ==
    [b \in 1..Len(ps) |->
        Cardinality({a \in 1..Len(ps) :
                        \/ KeyLess(ps[a][1], ps[b][1])
                        \/ (ps[a][1] = ps[b][1] /\ a < b)}) + 1]

\* sorted(...) of <<key, value>> pairs, values only.
StableSort(pairs) ==
    Bind(pairs, LAMBDA ps :
      Bind(Rank(ps), LAMBDA rank :
        [r \in 1..Len(ps) |-> ps[CHOOSE b \in 1..Len(ps) : rank[b] = r][2]]))

\* round(x, 2) of a coordinate counted in thousandths whose last digit is
\* not 5 (a decimal tie is decided by the binary value of the float).
Round2(x) == ((x + 5) \div 10) * 10

(***************************************************************************)
(* Line/fragment collector (main.py lines 116-132).                        *)
(* A page is [width |-> w, dict |-> d]; d is what page.get_text("dict")    *)
(* returns: [blocks |-> <<block, ...>>], a block is [type, lines], a line  *)
(* is [bbox |-> <<x0, y0, x1, y1>>, spans |-> <<span, ...>>], a span is    *)
(* [text |-> str]; any of the keys may be missing.                         *)
(***************************************************************************)
\* "".join((s.get("text") or "") for s in spans), line breaks normalized
LineText(ln) ==
    Bind(Get(ln, "spans", <<>>), LAMBDA spans :
      NormalizeNewlines(
        Concat([j \in 1..Len(spans) |-> Get(spans[j], "text", <<>>)])))

\* The items (none or one) that line ln of block number b_idx gives.
CollectLine(b_idx, ln) ==
    Bind(LineText(ln), LAMBDA t :
      IF Get(ln, "spans", <<>>) = <<>> \/ Strip(t) = <<>> THEN <<>>
      ELSE LET bbox == Get(ln, "bbox", <<0, 0, 0, 0>>)
           IN  << [bidx |-> b_idx, y |-> bbox[2], x |-> bbox[1],
                   x1 |-> bbox[3], text |-> RStrip(t)] >>)

\* CollectBlock without the test of the block's type.
CollectBlockAnyType(b_idx, b) ==
    Bind(Get(b, "lines", <<>>), LAMBDA lines :
      Concat([j \in 1..Len(lines) |-> CollectLine(b_idx, lines[j])]))

\* The items of block number b_idx: none unless it is a text block.
CollectBlock(b_idx, b) ==
    IF Get(b, "type", 0) # 0 THEN <<>>
    ELSE Bind(Get(b, "lines", <<>>), LAMBDA lines :
           Concat([j \in 1..Len(lines) |-> CollectLine(b_idx, lines[j])]))

_collect_items_dict(p) ==
    Bind(Get(p.dict, "blocks", <<>>), LAMBDA blocks :
      Concat([j \in 1..Len(blocks) |-> CollectBlock(j - 1, blocks[j])]))

(***************************************************************************)
(* Column splitter (main.py lines 134-198).                                *)
(* Centers are kept doubled (x0 + x1), gaps doubled, the gutter position   *)
(* mid quadrupled.  The result is [left, right, gutter] where gutter is    *)
(* <<>> for None and <<4 * mid>> otherwise.                                *)
(***************************************************************************)
need == Max(4, 2 * MIN_BLOCKS_PER_COLUMN)

NoSplit(items) == [left |-> items, right |-> <<>>, gutter |-> <<>>]

\* 2 * c, c = 0.5 * (x0 + x1), or float(x0) when x1 is missing
Center2(it) == IF "x1" \in DOMAIN it THEN it.x + it.x1 ELSE 2 * it.x

SortInts(s) == StableSort([j \in 1..Len(s) |-> <<<<s[j], 0>>, s[j]>>])

\* k = int(len(ys) * TRIM_TOP_BOTTOM_RATIO)
TrimK(n) == (n * TRIM_TOP_BOTTOM_RATIO) \div 100

\* trimmed (line 146) for the sorted ys
Trimmed(items, ys) ==
    LET n == Len(ys)
        k == TrimK(n)
        y_lo == IF k < n THEN ys[k + 1] ELSE ys[1]
        y_hi == IF k > 0 THEN ys[n - k] ELSE ys[n]
    IN  Filter(items, [j \in 1..Len(items) |->
                          y_lo <= items[j].y /\ items[j].y <= y_hi])

\* The gutter search set `work` (lines 141-152).
WorkSet(items) ==
    Bind(SortInts([j \in 1..Len(items) |-> items[j].y]), LAMBDA ys :
      IF ys = <<>> THEN items
      ELSE Bind(Trimmed(items, ys), LAMBDA trimmed :
             IF Len(trimmed) >= need THEN trimmed ELSE items))

\* The (doubled) gap after the j-th sorted center.
GapAt(centers, j) == centers[j + 1] - centers[j]

\* max_gap (doubled) and mid (quadrupled, <<>> for None) after the loop of
\* lines 166-171: the first gap that is positive and no smaller than any.
GapScan(centers) ==
    LET J == {j \in 1..(Len(centers) - 1) :
                 /\ GapAt(centers, j) > 0
                 /\ \A m \in 1..(Len(centers) - 1) :
                       /\ GapAt(centers, m) <= GapAt(centers, j)
                       /\ (m < j => GapAt(centers, m) < GapAt(centers, j))}
    IN  IF J = {} THEN [max_gap |-> 0, mid |-> <<>>]
        ELSE LET j == CHOOSE m \in J : TRUE
             IN  [max_gap |-> GapAt(centers, j),
                  mid |-> <<centers[j + 1] + centers[j]>>]

\* The sorted doubled centers of a gutter search set.
SortedCenters(work) == SortInts([j \in 1..Len(work) |-> Center2(work[j])])

\* EDGE_MARGIN_RATIO * w < mid < (1.0 - EDGE_MARGIN_RATIO) * w
EdgeOk(mid4, page_width) ==
    /\ 4 * EDGE_MARGIN_RATIO * page_width < 100 * mid4
    /\ 100 * mid4 < 4 * (100 - EDGE_MARGIN_RATIO) * page_width

\* The band check of lines 180-182 left out.
BandOkSkipped(mid4, page_width) == TRUE

\* lo_band * w <= mid <= hi_band * w
BandOk(mid4, page_width) ==
    /\ 4 * GUTTER_MID_BAND[1] * page_width <= 100 * mid4
    /\ 100 * mid4 <= 4 * GUTTER_MID_BAND[2] * page_width

\* not (max_gap < MIN_GAP_RATIO * w)
GapOk(gap2, page_width) == ~(100 * gap2 < 2 * MIN_GAP_RATIO * page_width)

\* c <= mid
IsLeft(it, mid4) == 2 * Center2(it) <= mid4

\* SplitAt with sides of exactly MIN_BLOCKS_PER_COLUMN fragments refused.
SplitAtStrictSides(items, mid) ==
    Bind(Filter(items, [j \in 1..Len(items) |-> IsLeft(items[j], mid[1])]),
      LAMBDA left :
        Bind(Filter(items, [j \in 1..Len(items) |->
                               ~IsLeft(items[j], mid[1])]),
          LAMBDA right :
            IF Len(left) <= MIN_BLOCKS_PER_COLUMN
               \/ Len(right) <= MIN_BLOCKS_PER_COLUMN
            THEN NoSplit(items)
            ELSE [left |-> left, right |-> right, gutter |-> mid]))

\* Lines 187-198: the split of the full list at mid, if both sides are big.
SplitAt(items, mid) ==
    Bind(Filter(items, [j \in 1..Len(items) |-> IsLeft(items[j], mid[1])]),
      LAMBDA left :
        Bind(Filter(items, [j \in 1..Len(items) |->
                               ~IsLeft(items[j], mid[1])]),
          LAMBDA right :
            IF Len(left) < MIN_BLOCKS_PER_COLUMN
               \/ Len(right) < MIN_BLOCKS_PER_COLUMN
            THEN NoSplit(items)
            ELSE [left |-> left, right |-> right, gutter |-> mid]))

\* SplitWith with the partition applied to the gutter search set.
SplitWithSearchSetOnly(items, work, page_width) ==
    IF Len(work) < need THEN NoSplit(items)
    ELSE Bind(GapScan(SortedCenters(work)), LAMBDA g :
           IF g.mid = <<>> THEN NoSplit(items)
           ELSE IF ~EdgeOk(g.mid[1], page_width) THEN NoSplit(items)
           ELSE IF ~BandOk(g.mid[1], page_width) THEN NoSplit(items)
           ELSE IF ~GapOk(g.max_gap, page_width) THEN NoSplit(items)
           ELSE IF SplitAt(work, g.mid).gutter = <<>> THEN NoSplit(items)
           ELSE SplitAt(work, g.mid))

\* Lines 162-198 for the gutter search set work.
SplitWith(items, work, page_width) ==
    IF Len(work) < need THEN NoSplit(items)
    ELSE Bind(GapScan(SortedCenters(work)), LAMBDA g :
           IF g.mid = <<>> THEN NoSplit(items)
           ELSE IF ~EdgeOk(g.mid[1], page_width) THEN NoSplit(items)
           ELSE IF ~BandOk(g.mid[1], page_width) THEN NoSplit(items)
           ELSE IF ~GapOk(g.max_gap, page_width) THEN NoSplit(items)
           ELSE SplitAt(items, g.mid))

_items_to_columns(items, page_width) ==
    IF Len(items) < need THEN NoSplit(items)
    ELSE Bind(WorkSet(items), LAMBDA work :
           SplitWith(items, work, page_width))

(***************************************************************************)
(* Row assembler (main.py lines 201-219).                                  *)
(* last_y is kept as the exact fraction num / 2^k.                         *)
(***************************************************************************)
\* The row sorted by the block index alone.
SortRowByBlock(cur) ==
    StableSort([j \in 1..Len(cur) |-> <<<<cur[j].bidx, 0>>, cur[j]>>])

\* cur.sort(key=lambda z: (round(z["x"], 2), z["bidx"]))
SortRow(cur) ==
    StableSort([j \in 1..Len(cur) |->
                   <<<<Round2(cur[j].x), cur[j].bidx>>, cur[j]>>])

\* The test of line 208 with < for <=.
JoinsRowStrict(y, num, k) == Abs(y * Pow2(k) - num) < Y_TOL * Pow2(k)

\* The test of line 208 with twice the tolerance.
JoinsRowTwiceTolerance(y, num, k) ==
    Abs(y * Pow2(k) - num) <= 2 * Y_TOL * Pow2(k)

\* abs(it["y"] - last_y) <= Y_TOL with last_y = num / 2^k
JoinsRow(y, num, k) == Abs(y * Pow2(k) - num) <= Y_TOL * Pow2(k)

\* RowStep with last_y left at the y of the row's first item.
RowStepKeepsFirstY(st, it) ==
    IF st.cur = <<>>
    THEN [st EXCEPT !.cur = <<it>>, !.num = it.y, !.k = 0]
    ELSE IF JoinsRow(it.y, st.num, st.k)
    THEN [st EXCEPT !.cur = Append(st.cur, it)]
    ELSE [rows |-> Append(st.rows, SortRow(st.cur)),
          cur |-> <<it>>, num |-> it.y, k |-> 0]

\* One step of the loop of lines 207-215: st is the loop state
\* [rows, cur, num, k] and it the next item in y order.
RowStep(st, it) ==
    IF st.cur = <<>>
    THEN [st EXCEPT !.cur = <<it>>, !.num = it.y, !.k = 0]
    ELSE IF JoinsRow(it.y, st.num, st.k)
    THEN [st EXCEPT !.cur = Append(st.cur, it),
                    !.num = st.num + it.y * Pow2(st.k), !.k = st.k + 1]
    ELSE [rows |-> Append(st.rows, SortRow(st.cur)),
          cur |-> <<it>>, num |-> it.y, k |-> 0]

RECURSIVE RowScan(_, _, _)
\* The loop from the j-th item on, and lines 216-218 after it.
RowScan(sorted, j, st) ==
    IF j > Len(sorted)
    THEN (IF st.cur = <<>> THEN st.rows
          ELSE Append(st.rows, SortRow(st.cur)))
    ELSE Bind(RowStep(st, sorted[j]), LAMBDA st2 : RowScan(sorted, j + 1, st2))

\* Rows without the row that is still open when the loop ends (lines
\* 216-218 left out).
RowsWithoutOpenRow(items) ==
    Bind(StableSort([j \in 1..Len(items) |-> <<<<items[j].y, 0>>, items[j]>>]),
      LAMBDA sorted :
        Bind(RowScan(sorted, 1,
                     [rows |-> <<>>, cur |-> <<>>, num |-> 0, k |-> 0]),
          LAMBDA rs : SubSeq(rs, 1, Len(rs) - 1)))

\* The rows built by _sort_items, top to bottom.
Rows(items) ==
    Bind(StableSort([j \in 1..Len(items) |-> <<<<items[j].y, 0>>, items[j]>>]),
      LAMBDA sorted :
        RowScan(sorted, 1, [rows |-> <<>>, cur |-> <<>>, num |-> 0, k |-> 0]))

_sort_items(items) == Bind(Rows(items), LAMBDA rows : Concat(rows))

(***************************************************************************)
(* Page text (main.py lines 221-233).                                      *)
(***************************************************************************)
join_items(its) ==
    Bind(_sort_items(its), LAMBDA ordered :
      Bind(Filter(ordered, [j \in 1..Len(ordered) |->
                              Strip(ordered[j].text) # <<>>]),
        LAMBDA kept : Join(<<"\n">>, [j \in 1..Len(kept) |-> kept[j].text])))

\* LayoutText with the columns joined by a single newline.
LayoutTextNoBlankLine(items, c) ==
    IF c.gutter = <<>> THEN Strip(join_items(items))
    ELSE Bind(<<join_items(c.left), join_items(c.right)>>, LAMBDA lr :
           Strip(Join(<<"\n">>, SelectSeq(lr, LAMBDA t : t # <<>>))))

\* The text for a given result of _items_to_columns (lines 231-233).
LayoutText(items, c) ==
    IF c.gutter = <<>> THEN Strip(join_items(items))
    ELSE Bind(<<join_items(c.left), join_items(c.right)>>, LAMBDA lr :
           Strip(Join(<<"\n", "\n">>,
                      SelectSeq(lr, LAMBDA t : t # <<>>))))

\* page_text_layout with its items and the result of its _items_to_columns
\* call (no call, shown as no split, when the page has no items).
PageLayout(p) ==
    Bind(_collect_items_dict(p), LAMBDA items :
      IF items = <<>>
      THEN [items |-> <<>>, cols |-> NoSplit(<<>>), text |-> <<>>]
      ELSE Bind(_items_to_columns(items, p.width), LAMBDA c :
             [items |-> items, cols |-> c, text |-> LayoutText(items, c)]))

page_text_layout(p) == PageLayout(p).text

(***************************************************************************)
(* OCR fallback (main.py lines 103-112).                                   *)
(* An outcome of the engine call is [kind |-> "text", raw |-> str] or      *)
(* [kind |-> "RuntimeError"] (engine error or timeout).                    *)
(***************************************************************************)
ocr_page_to_text(outcome) ==
    IF outcome.kind = "RuntimeError" THEN <<>>
    ELSE Strip(NormalizeNewlines(outcome.raw))

(***************************************************************************)
(* Bounds and inputs of the extraction loop.                               *)
(***************************************************************************)
MaxPages == 2
MaxDocs == 2

\* Values of the MAX_OCR_PAGES environment variable (default "20").
OcrCaps == {1, 20}

Long(n) == [j \in 1..n |-> "a"]

\* A page 612 points wide with one text block whose lines hold the given
\* texts, one span each, one below the other.
TextPage(texts) ==
    [width |-> 612000,
     dict |-> [blocks |-> << [type |-> 0,
                 lines |-> [j \in 1..Len(texts) |->
                    [bbox |-> <<72000, 72000 + 14000 * j,
                                72000 + 6000 * Len(texts[j]),
                                84000 + 14000 * j>>,
                     spans |-> << [text |-> texts[j]] >>]]] >>]]

\* A scanned page: one image block, no text layer.
ScannedPage ==
    [width |-> 612000, dict |-> [blocks |-> << [type |-> 1] >>]]

DocPages ==
    { ScannedPage,
      TextPage(<< <<"a", "b">> >>),
      TextPage(<< <<"A", ".">>, <<"B", ".">> >>),
      TextPage(<< <<"A", ".">>, <<"a", "b">>, <<"(", "1", ")">> >>),
      TextPage(<< Long(MIN_TEXT_LEN - 1) >>),
      TextPage(<< Long(MIN_TEXT_LEN) >>),
      TextPage(<< Long(MIN_TEXT_LEN), <<"a", "b">>, <<"B", ".">> >>) }

\* What pytesseract.image_to_string may return.
OcrOutputs ==
    { <<" ", "\r", "\n">>,
      <<" ", "c", "d", "\r", "\n">>,
      <<"i", ".", "\r", "\n", "(", "1", ")", "\n">>,
      <<"(", "a", ")", "\r", "c", "d", "\n", "(", "1", ")">> }

OcrOutcomes ==
    { [kind |-> "RuntimeError"] }
    \cup { [kind |-> "text", raw |-> r] : r \in OcrOutputs }

(***************************************************************************)
(* State.                                                                  *)
(*   Globals: ALLOW_OCR, MAX_OCR_PAGES.                                    *)
(*   main(): total_pdfs.                                                   *)
(*   extract_pdf_to_records: page_count, i, ocr_used, records, page, txt,  *)
(*   is_ocr and the position pc in                                         *)
(*     "idle"      between two documents in main's task loop               *)
(*     "loop"      at the head of `for i in range(doc.page_count)`         *)
(*     "ocr"       about to call ocr_page_to_text (line 302)               *)
(*     "emit"      at line 308                                             *)
(*     "returned"  the record list has been returned to main               *)
(*     "failed"    an exception has escaped to main's except clause        *)
(*   History: cur records what happened to the page being processed,       *)
(*   trace holds one such entry per record, ocr_calls counts the engine    *)
(*   calls of the current document.                                        *)
(*   Pure-function checks: pc = "input" / "output", page and cols.         *)
(***************************************************************************)
VARIABLES ALLOW_OCR, MAX_OCR_PAGES, total_pdfs, page_count, i, ocr_used,
          records, page, txt, is_ocr, pc, cur, trace, ocr_calls, items, cols,
          rows, ordered, text, out, cleaned,
          ids, dense_vectors, sparse_vectors, metadata, batch_size, sent,
          df, dense_embeddings, sparse_embeddings, vectors, all_chunks,
          embed_calls,
          listing, parquet_files, continuation_token, list_calls, get_calls,
          result

vars == <<ALLOW_OCR, MAX_OCR_PAGES, total_pdfs, page_count, i, ocr_used,
          records, page, txt, is_ocr, pc, cur, trace, ocr_calls, items, cols,
          rows, ordered, text, out, cleaned,
          ids, dense_vectors, sparse_vectors, metadata, batch_size, sent,
          df, dense_embeddings, sparse_embeddings, vectors, all_chunks,
          embed_calls,
          listing, parquet_files, continuation_token, list_calls, get_calls,
          result>>

\* The state of _sort_items, of remove_orphan_enumerators and of upsert,
\* which the extraction loop and page_text_layout leave alone.
rowVars == <<rows, ordered>>
cleanVars == <<text, out, cleaned>>
upsertVars == <<ids, dense_vectors, sparse_vectors, metadata, batch_size, sent>>

\* The state of build_vectors_from_df and embed_dense, and of
\* load_parquet_from_s3.
ingestVars == <<df, dense_embeddings, sparse_embeddings, vectors, all_chunks,
                embed_calls>>
s3Vars == <<listing, parquet_files, continuation_token, list_calls, get_calls,
            result>>

\* No call of build_vectors_from_df or embed_dense has been made.
NoIngestCall ==
    /\ df = <<>>
    /\ dense_embeddings = <<>>
    /\ sparse_embeddings = <<>>
    /\ vectors = <<>>
    /\ all_chunks = <<>>
    /\ embed_calls = <<>>

\* No call of load_parquet_from_s3 has been made.
NoS3Call ==
    /\ listing = <<>>
    /\ parquet_files = <<>>
    /\ continuation_token = <<>>
    /\ list_calls = <<>>
    /\ get_calls = <<>>
    /\ result = <<>>

\* No call of _sort_items on its own has been made.
NoRowCall == rows = <<>> /\ ordered = <<>>

\* No call of remove_orphan_enumerators on its own has been made.
NoCleanCall == text = <<>> /\ out = <<>> /\ cleaned = <<>>

\* No call of upsert has been made.
NoUpsertCall ==
    /\ ids = <<>>
    /\ dense_vectors = <<>>
    /\ sparse_vectors = <<>>
    /\ metadata = <<>>
    /\ batch_size = 100
    /\ sent = <<>>

NoPage == [width |-> 0, dict |-> <<>>]

NoCur == [assembled |-> <<>>, nitems |-> 0, allow |-> FALSE, checked |-> 0,
          state |-> "NotNeeded", outcome |-> "none", txt_ocr |-> <<>>,
          pre_clean |-> <<>>]

Init ==
    /\ ALLOW_OCR \in BOOLEAN
    /\ MAX_OCR_PAGES \in OcrCaps
    /\ total_pdfs = 0
    /\ page_count = 0
    /\ i = 0
    /\ ocr_used = 0
    /\ records = <<>>
    /\ page = NoPage
    /\ txt = <<>>
    /\ is_ocr = FALSE
    /\ pc = "idle"
    /\ cur = NoCur
    /\ trace = <<>>
    /\ ocr_calls = 0
    /\ items = <<>>
    /\ cols = NoSplit(<<>>)
    /\ NoRowCall
    /\ NoIngestCall
    /\ NoS3Call
    /\ NoCleanCall
    /\ NoUpsertCall

\* StartDoc with the counter kept from the previous document (a counter
\* that is not local to extract_pdf_to_records).
StartDocKeepsCounter ==
    /\ pc = "idle"
    /\ total_pdfs < MaxDocs
    /\ total_pdfs' = total_pdfs + 1
    /\ \E n \in 0..MaxPages : page_count' = n
    /\ i' = 0
    /\ records' = <<>>
    /\ trace' = <<>>
    /\ ocr_calls' = 0
    /\ pc' = "loop"
    /\ UNCHANGED <<ingestVars, s3Vars>>
    /\ UNCHANGED <<rowVars, cleanVars, upsertVars>>
    /\ UNCHANGED <<ALLOW_OCR, MAX_OCR_PAGES, ocr_used, page, txt, is_ocr, cur,
                   items, cols>>

\* main line 497-502: the next task; extract_pdf_to_records lines 280-286.
StartDoc ==
    /\ pc = "idle"
    /\ total_pdfs < MaxDocs
    /\ total_pdfs' = total_pdfs + 1
    /\ \E n \in 0..MaxPages : page_count' = n
    /\ i' = 0
    /\ ocr_used' = 0
    /\ records' = <<>>
    /\ trace' = <<>>
    /\ ocr_calls' = 0
    /\ pc' = "loop"
    /\ UNCHANGED <<ingestVars, s3Vars>>
    /\ UNCHANGED <<rowVars, cleanVars, upsertVars>>
    /\ UNCHANGED <<ALLOW_OCR, MAX_OCR_PAGES, page, txt, is_ocr, cur, items, cols>>

\* needs_ocr with the cap reached one page late (used <= cap).
needs_ocr_cap_inclusive(t, allow, used, cap) ==
    allow /\ Len(Strip(t)) < MIN_TEXT_LEN /\ used <= cap

\* needs_ocr with a text of exactly MIN_TEXT_LEN characters counted as short.
needs_ocr_len_inclusive(t, allow, used, cap) ==
    allow /\ Len(Strip(t)) <= MIN_TEXT_LEN /\ used < cap

\* needs_ocr of lines 294-298
needs_ocr(t, allow, used, cap) ==
    allow /\ Len(Strip(t)) < MIN_TEXT_LEN /\ used < cap

\* Lines 288-301: load page i, lay it out, decide whether OCR is called.
LoadPage ==
    /\ pc = "loop"
    /\ i < page_count
    /\ \E p \in DocPages : \E lay \in {PageLayout(p)} :
         LET call == /\ needs_ocr(lay.text, ALLOW_OCR, ocr_used, MAX_OCR_PAGES)
                     /\ Len(lay.items) <= 2
         IN  /\ page' = p
             /\ items' = lay.items
             /\ cols' = lay.cols
             /\ txt' = lay.text
             /\ is_ocr' = FALSE
             /\ cur' = [NoCur EXCEPT !.assembled = lay.text,
                                     !.nitems = Len(lay.items),
                                     !.allow = ALLOW_OCR,
                                     !.checked = ocr_used,
                                     !.state = IF call THEN "Needed"
                                               ELSE "NotNeeded"]
             /\ pc' = IF call THEN "ocr" ELSE "emit"
    /\ UNCHANGED <<ingestVars, s3Vars>>
    /\ UNCHANGED <<rowVars, cleanVars, upsertVars>>
    /\ UNCHANGED <<ALLOW_OCR, MAX_OCR_PAGES, total_pdfs, page_count, i,
                   ocr_used, records, trace, ocr_calls>>

\* The test of line 303 with >= for >.
OcrReplacesOnTie(txt_ocr, t) == Len(Strip(txt_ocr)) >= Len(Strip(t))

\* Line 303: len(txt_ocr.strip()) > len(txt.strip())
OcrReplaces(txt_ocr, t) == Len(Strip(txt_ocr)) > Len(Strip(t))

\* OcrResult with the counter left alone when the OCR text is taken.
OcrResultForgetsCounter(outcome) ==
    \E txt_ocr \in {ocr_page_to_text(outcome)} :
    LET replace == OcrReplaces(txt_ocr, txt)
    IN  /\ txt' = IF replace THEN txt_ocr ELSE txt
        /\ is_ocr' = IF replace THEN TRUE ELSE is_ocr
        /\ ocr_used' = ocr_used
        /\ cur' = [cur EXCEPT !.state = IF replace THEN "Replaced"
                                        ELSE "Attempted",
                              !.outcome = outcome.kind,
                              !.txt_ocr = txt_ocr]
        /\ ocr_calls' = ocr_calls + 1
        /\ pc' = "emit"
        /\ UNCHANGED <<ingestVars, s3Vars>>
        /\ UNCHANGED <<rowVars, cleanVars, upsertVars>>
        /\ UNCHANGED <<ALLOW_OCR, MAX_OCR_PAGES, total_pdfs, page_count, i,
                       records, page, trace, items, cols>>

\* OcrResult with the engine called a second time when the first result
\* is not longer than the text.
OcrResultRetriesDiscarded(outcome) ==
    \E txt_ocr \in {ocr_page_to_text(outcome)} :
    LET replace == OcrReplaces(txt_ocr, txt)
    IN  /\ txt' = IF replace THEN txt_ocr ELSE txt
        /\ is_ocr' = IF replace THEN TRUE ELSE is_ocr
        /\ ocr_used' = IF replace THEN ocr_used + 1 ELSE ocr_used
        /\ cur' = [cur EXCEPT !.state = IF replace THEN "Replaced"
                                        ELSE "Attempted",
                              !.outcome = outcome.kind,
                              !.txt_ocr = txt_ocr]
        /\ ocr_calls' = IF replace THEN ocr_calls + 1 ELSE ocr_calls + 2
        /\ pc' = "emit"
        /\ UNCHANGED <<ingestVars, s3Vars>>
        /\ UNCHANGED <<rowVars, cleanVars, upsertVars>>
        /\ UNCHANGED <<ALLOW_OCR, MAX_OCR_PAGES, total_pdfs, page_count, i,
                       records, page, trace, items, cols>>

\* Lines 302-306 for a given result txt_ocr of ocr_page_to_text.
OcrResult(outcome) ==
    \E txt_ocr \in {ocr_page_to_text(outcome)} :
    LET replace == OcrReplaces(txt_ocr, txt)
    IN  /\ txt' = IF replace THEN txt_ocr ELSE txt
        /\ is_ocr' = IF replace THEN TRUE ELSE is_ocr
        /\ ocr_used' = IF replace THEN ocr_used + 1 ELSE ocr_used
        /\ cur' = [cur EXCEPT !.state = IF replace THEN "Replaced"
                                        ELSE "Attempted",
                              !.outcome = outcome.kind,
                              !.txt_ocr = txt_ocr]
        /\ ocr_calls' = ocr_calls + 1
        /\ pc' = "emit"
        /\ UNCHANGED <<ingestVars, s3Vars>>
        /\ UNCHANGED <<rowVars, cleanVars, upsertVars>>
        /\ UNCHANGED <<ALLOW_OCR, MAX_OCR_PAGES, total_pdfs, page_count, i,
                       records, page, trace, items, cols>>

\* The engine returns text.
OcrReturns ==
    /\ pc = "ocr"
    /\ \E r \in OcrOutputs : OcrResult([kind |-> "text", raw |-> r])

\* The engine's RuntimeError not caught: it escapes like any other error.
OcrEngineFailsUncaught ==
    /\ pc = "ocr"
    /\ pc' = "failed"
    /\ cur' = [cur EXCEPT !.outcome = "RuntimeError"]
    /\ ocr_calls' = ocr_calls + 1
    /\ UNCHANGED <<ingestVars, s3Vars>>
    /\ UNCHANGED <<rowVars, cleanVars, upsertVars>>
    /\ UNCHANGED <<ALLOW_OCR, MAX_OCR_PAGES, total_pdfs, page_count, i,
                   ocr_used, records, page, txt, is_ocr, trace, items, cols>>

\* The engine fails or times out: pytesseract raises RuntimeError, which
\* lines 108-111 catch.
OcrEngineFails ==
    /\ pc = "ocr"
    /\ OcrResult([kind |-> "RuntimeError"])

\* Lines 104-107 are outside the try, and line 110 catches RuntimeError
\* only: a rasterization error escapes extract_pdf_to_records (main line
\* 526 catches it).
RasterizeFails ==
    /\ pc = "ocr"
    /\ pc' = "failed"
    /\ UNCHANGED <<ingestVars, s3Vars>>
    /\ UNCHANGED <<rowVars, cleanVars, upsertVars>>
    /\ UNCHANGED <<ALLOW_OCR, MAX_OCR_PAGES, total_pdfs, page_count, i,
                   ocr_used, records, page, txt, is_ocr, cur, trace,
                   ocr_calls, items, cols>>

\* Lines 308-309
CleanedText(t) ==
    IF APPLY_ENUMERATOR_CLEAN /\ t # <<>>
    THEN remove_orphan_enumerators(t) ELSE t

\* MakeRecord with char_len taken before the cleaning of line 309.
MakeRecordLenBeforeClean(page_num, t, ocr) ==
    [page |-> page_num, text |-> t, is_ocr |-> ocr, char_len |-> Len(txt)]

\* Lines 311-324: the fields page, text, is_ocr and char_len of rec
MakeRecord(page_num, t, ocr) ==
    [page |-> page_num, text |-> t, is_ocr |-> ocr, char_len |-> Len(t)]

\* EmitRecord with a page whose final text is empty giving no record.
EmitRecordSkipEmpty ==
    /\ pc = "emit"
    /\ records' = IF CleanedText(txt) = <<>> THEN records
                  ELSE Append(records,
                              MakeRecord(i + 1, CleanedText(txt), is_ocr))
    /\ trace' = Append(trace, [cur EXCEPT !.pre_clean = txt])
    /\ i' = i + 1
    /\ pc' = "loop"
    /\ UNCHANGED <<ingestVars, s3Vars>>
    /\ UNCHANGED <<rowVars, cleanVars, upsertVars>>
    /\ UNCHANGED <<ALLOW_OCR, MAX_OCR_PAGES, total_pdfs, page_count,
                   ocr_used, page, txt, is_ocr, cur, ocr_calls, items, cols>>

\* Lines 308-325: clean, build the record, append it.
EmitRecord ==
    /\ pc = "emit"
    /\ records' = Append(records, MakeRecord(i + 1, CleanedText(txt), is_ocr))
    /\ trace' = Append(trace, [cur EXCEPT !.pre_clean = txt])
    /\ i' = i + 1
    /\ pc' = "loop"
    /\ UNCHANGED <<ingestVars, s3Vars>>
    /\ UNCHANGED <<rowVars, cleanVars, upsertVars>>
    /\ UNCHANGED <<ALLOW_OCR, MAX_OCR_PAGES, total_pdfs, page_count,
                   ocr_used, page, txt, is_ocr, cur, ocr_calls, items, cols>>

\* Line 327
ReturnRecords ==
    /\ pc = "loop"
    /\ i = page_count
    /\ pc' = "returned"
    /\ UNCHANGED <<ingestVars, s3Vars>>
    /\ UNCHANGED <<rowVars, cleanVars, upsertVars>>
    /\ UNCHANGED <<ALLOW_OCR, MAX_OCR_PAGES, total_pdfs, page_count, i,
                   ocr_used, records, page, txt, is_ocr, cur, trace,
                   ocr_calls, items, cols>>

\* main lines 504-527: the records go to the sink, or the error is printed;
\* the frame of extract_pdf_to_records is gone (the model keeps the last
\* value of its counter, which nothing reads).
NextTask ==
    /\ pc \in {"returned", "failed"}
    /\ pc' = "idle"
    /\ page_count' = 0
    /\ i' = 0
    /\ records' = <<>>
    /\ page' = NoPage
    /\ txt' = <<>>
    /\ is_ocr' = FALSE
    /\ cur' = NoCur
    /\ trace' = <<>>
    /\ ocr_calls' = 0
    /\ items' = <<>>
    /\ cols' = NoSplit(<<>>)
    /\ UNCHANGED <<ingestVars, s3Vars>>
    /\ UNCHANGED <<rowVars, cleanVars, upsertVars>>
    /\ UNCHANGED <<ALLOW_OCR, MAX_OCR_PAGES, total_pdfs, ocr_used>>

Next ==
    \/ StartDoc
    \/ LoadPage
    \/ OcrReturns
    \/ OcrEngineFails
    \/ RasterizeFails
    \/ EmitRecord
    \/ ReturnRecords
    \/ NextTask

Spec == Init /\ [][Next]_vars

(***************************************************************************)
(* Properties of the extraction loop, checked under Spec.                  *)
(***************************************************************************)
\* Whether the engine was called for the page of history entry e.
Attempted(e) == e.outcome # "none"

\* The number of entries among the first n of the trace whose page had its
\* text replaced by OCR text.
ReplacedBefore(n) ==
    Cardinality({k \in 1..n : trace[k].state = "Replaced"})

\* C1: a document of N pages on which no exception escapes returns exactly
\* N records, the j-th with page = j; while the loop runs there is one
\* record per page done; a record with empty text has char_len = 0.
C1_OneRecordPerPage ==
    /\ pc \in {"loop", "ocr", "emit", "returned"} => Len(records) = i
    /\ pc = "returned" => Len(records) = page_count
    /\ \A j \in 1..Len(records) :
         /\ records[j].page = j
         /\ (records[j].text = <<>> => records[j].char_len = 0)

\* A two-page document has returned; its first page ended with empty text
\* and its second page was replaced by OCR text.
C1_Witness ==
    /\ pc = "returned"
    /\ page_count = 2
    /\ Len(records) = 2
    /\ records[1].text = <<>>
    /\ records[2].is_ocr

\* C2: every record has char_len = len(text), text being the cleaned form
\* of the OCR text if the page was replaced and of the assembled text if not.
C2_CharLenIsLenOfFinalText ==
    \A j \in 1..Len(records) :
      /\ records[j].char_len = Len(records[j].text)
      /\ records[j].text =
           CleanedText(IF trace[j].state = "Replaced" THEN trace[j].txt_ocr
                       ELSE trace[j].assembled)

\* A record of a page replaced by OCR text that the cleaner then shortened
\* without emptying it.
C2_Witness ==
    \E j \in 1..Len(records) :
      /\ trace[j].state = "Replaced"
      /\ records[j].text # trace[j].txt_ocr
      /\ records[j].char_len > 0

\* The replacement rule for a page whose history entry is e, whose text
\* entering the cleaner is t and whose flag is ocr.
ReplacementRule(e, t, ocr) ==
    IF Len(Strip(e.txt_ocr)) > Len(Strip(e.assembled))
    THEN t = e.txt_ocr /\ ocr
    ELSE t = e.assembled /\ ~ocr

\* C3: once OCR has been attempted on a page, the text entering the cleaner
\* is the OCR text and is_ocr is true if the OCR text's stripped length is
\* strictly greater than the assembled text's; otherwise the text is the
\* assembled text and is_ocr is false.
C3_ReplaceIffStrictlyLonger ==
    /\ (pc = "emit" /\ Attempted(cur)) => ReplacementRule(cur, txt, is_ocr)
    /\ \A j \in 1..Len(records) :
         Attempted(trace[j]) =>
           ReplacementRule(trace[j], trace[j].pre_clean, records[j].is_ocr)

\* A document with a page whose OCR text was as long as its non-empty
\* assembled text (kept) and a page whose OCR text was longer (replaced).
C3_Witness ==
    /\ pc = "returned"
    /\ \E j \in 1..Len(records) :
         /\ Attempted(trace[j])
         /\ trace[j].assembled # <<>>
         /\ Len(Strip(trace[j].txt_ocr)) = Len(Strip(trace[j].assembled))
         /\ ~records[j].is_ocr
    /\ \E j \in 1..Len(records) :
         /\ records[j].is_ocr
         /\ records[j].text # <<>>

\* The OCR gate as it stood when the page of history entry e was checked.
GateFailed(e) ==
    /\ e.allow
    /\ Len(Strip(e.assembled)) < MIN_TEXT_LEN
    /\ e.nitems <= 2
    /\ e.checked < MAX_OCR_PAGES

\* C4: a page with is_ocr = true failed the OCR gate (OCR enabled, stripped
\* assembled text shorter than MIN_TEXT_LEN, at most 2 fragments, counter
\* below MAX_OCR_PAGES when checked), and it reached Replaced through Needed
\* and an engine call that returned text.
C4_IsOcrOnlyThroughGate ==
    /\ (pc \in {"ocr", "emit"} /\ cur.state # "NotNeeded") => GateFailed(cur)
    /\ (pc = "emit" /\ is_ocr) => cur.state = "Replaced" /\ Attempted(cur)
    /\ \A j \in 1..Len(records) :
         records[j].is_ocr =>
           /\ GateFailed(trace[j])
           /\ trace[j].state = "Replaced"
           /\ trace[j].outcome = "text"

\* The second page of a document was replaced by OCR text with the counter
\* at 1, under a cap of more than 1.
C4_Witness ==
    /\ Len(records) = 2
    /\ records[2].is_ocr
    /\ trace[2].checked = 1
    /\ trace[2].nitems <= 2

\* C5: a page whose assembled text has at least MIN_TEXT_LEN characters
\* never has the engine called, and its record has is_ocr = false.
C5_LongTextNeverOcr ==
    /\ (pc = "ocr" => Len(cur.assembled) < MIN_TEXT_LEN)
    /\ (pc = "emit" /\ Len(cur.assembled) >= MIN_TEXT_LEN) =>
         (~Attempted(cur) /\ ~is_ocr)
    /\ \A j \in 1..Len(records) :
         Len(trace[j].assembled) >= MIN_TEXT_LEN =>
           /\ trace[j].state = "NotNeeded"
           /\ ~Attempted(trace[j])
           /\ ~records[j].is_ocr

\* A record of a page of exactly MIN_TEXT_LEN characters in one fragment,
\* with OCR enabled and the counter below the cap: only the length of the
\* text kept the engine from being called.
C5_Witness ==
    \E j \in 1..Len(records) :
      /\ Len(trace[j].assembled) = MIN_TEXT_LEN
      /\ trace[j].nitems = 1
      /\ trace[j].allow
      /\ trace[j].checked < MAX_OCR_PAGES
      /\ ~records[j].is_ocr

\* What the step of an engine failure does: empty OCR text, the assembled
\* text kept, is_ocr false, the counter unchanged, on to the record.
EngineFailureStep ==
    (pc = "ocr" /\ cur'.outcome = "RuntimeError") =>
      /\ cur'.txt_ocr = <<>>
      /\ txt' = cur.assembled
      /\ ~is_ocr'
      /\ ocr_used' = ocr_used
      /\ pc' = "emit"

\* What holds of a page after an engine failure.
EngineFailureKept ==
    /\ pc = "failed" => cur.outcome # "RuntimeError"
    /\ \A j \in 1..Len(records) :
         trace[j].outcome = "RuntimeError" =>
           /\ records[j].text = CleanedText(trace[j].assembled)
           /\ ~records[j].is_ocr
           /\ trace[j].state = "Attempted"

\* C6: an engine failure (error or timeout) is treated as empty OCR text:
\* the page keeps its assembled text with is_ocr = false, the counter is
\* unchanged, the page's record is produced, and the failure does not end
\* extract_pdf_to_records.
C6_EngineFailureIsEmptyOcr == []EngineFailureKept /\ [][EngineFailureStep]_vars

\* A two-page document has returned after the engine failed on its first
\* page, which had text.
C6_Witness ==
    /\ pc = "returned"
    /\ Len(records) = 2
    /\ trace[1].outcome = "RuntimeError"
    /\ records[1].text # <<>>

\* The value each trigger check tested is the number of pages replaced
\* before it in the document.
CounterSeen ==
    /\ \A j \in 1..Len(trace) : trace[j].checked = ReplacedBefore(j - 1)
    /\ pc \in {"ocr", "emit"} => cur.checked = ReplacedBefore(Len(trace))
    /\ pc \in {"loop", "returned"} => ocr_used = ReplacedBefore(Len(trace))

\* How a step may change the counter.
CounterStep ==
    /\ (pc = "idle" /\ pc' = "loop") => ocr_used' = 0
    /\ pc # "idle" =>
         /\ ocr_used' >= ocr_used
         /\ ocr_used' # ocr_used =>
              /\ pc = "ocr"
              /\ ocr_used' = ocr_used + 1
              /\ cur'.state = "Replaced"
              /\ txt' = cur'.txt_ocr
         /\ (pc = "ocr" /\ cur'.state = "Replaced") =>
              ocr_used' = ocr_used + 1

\* C7: within a document the counter starts at 0, changes only in the OCR
\* fallback step, by +1 and exactly when the page is replaced, never
\* decreases, and the value a page's check tests is the number of pages
\* replaced before it in that document (none carried from the last one).
C7_CounterPerDocument == []CounterSeen /\ [][CounterStep]_vars

\* The second document: its first page was replaced with the counter at 0,
\* its second page was checked with the counter at 1 and kept its text
\* after an engine call.
C7_Witness ==
    /\ total_pdfs = 2
    /\ pc = "returned"
    /\ Len(trace) = 2
    /\ trace[1].state = "Replaced"
    /\ trace[1].checked = 0
    /\ trace[2].checked = 1
    /\ trace[2].state = "Attempted"
    /\ ocr_used = 1

(***************************************************************************)
(* Page layout as a function of the page: inputs and specification.        *)
(* A page is an optional header line, a body of lines laid out two to a    *)
(* row, and an optional footer line; every line is its own text block.     *)
(* Header and footer are centred lines above and below the body.           *)
(***************************************************************************)
MaxBody == 11

\* <<x0, x1>> of a line; the centers are 50, 150, 200, 360 and 260 points.
ColGeoms == << <<10000, 90000>>, <<110000, 190000>>, <<180000, 220000>>,
               <<320000, 400000>>, <<240000, 280000>> >>

\* The geometries of body lines.
BodyGeomIds == 1..4

\* The geometry of a header and of a footer line; 0 is no such line.
HeaderGeoms == {0, 3}
FooterGeoms == {0, 5}

ColWidths == {500000, 700000}

ItemChars == <<"a", "b", "e", "f", "g", "h", "j", "k", "n", "o", "p", "q",
               "r", "s", "t", "u", "w", "y", "z">>

\* How many body lines have each geometry.
BodyCounts ==
    {c \in [BodyGeomIds -> 0..MaxBody] :
        c[1] + c[2] + c[3] + c[4] <= MaxBody}

RECURSIVE Repeat(_, _)
Repeat(g, n) == IF n = 0 THEN <<>> ELSE <<g>> \o Repeat(g, n - 1)

\* The body lines' geometries: ascending, then the two lines of every
\* other row exchanged, so that rows occur in both orders.
BodyGeoms(c) ==
    LET asc == Repeat(1, c[1]) \o Repeat(2, c[2]) \o Repeat(3, c[3])
               \o Repeat(4, c[4])
        n == Len(asc)
        Src(m) == IF ((m - 1) \div 2) % 2 = 1 THEN m
                  ELSE IF m % 2 = 1 THEN (IF m + 1 <= n THEN m + 1 ELSE m)
                  ELSE m - 1
    IN  [m \in 1..n |-> asc[Src(m)]]

\* A text block with one line of one span.
LineBlock(g, y0, ch) ==
    [type |-> 0,
     lines |-> << [bbox |-> <<ColGeoms[g][1], y0, ColGeoms[g][2], y0 + 10000>>,
                   spans |-> << [text |-> <<ch>>] >>] >>]

ColPage(w, hdr, c, ftr) ==
    LET body == BodyGeoms(c)
        n == Len(body)
        h == IF hdr = 0 THEN 0 ELSE 1
        top == IF hdr = 0 THEN <<>>
               ELSE <<LineBlock(hdr, 50000, ItemChars[1])>>
        mid == [m \in 1..n |->
                   LineBlock(body[m],
                             100000 + 14000 * ((m - 1) \div 2)
                                    + 1500 * ((m - 1) % 2),
                             ItemChars[h + m])]
        bot == IF ftr = 0 THEN <<>>
               ELSE <<LineBlock(ftr, 750000, ItemChars[h + n + 1])>>
    IN  [width |-> w, dict |-> [blocks |-> top \o mid \o bot]]

ColumnPages ==
    {ColPage(w, hdr, c, ftr) :
        w \in ColWidths, hdr \in HeaderGeoms, c \in BodyCounts,
        ftr \in FooterGeoms}

InitColumns ==
    /\ ALLOW_OCR = TRUE
    /\ MAX_OCR_PAGES = 20
    /\ total_pdfs = 0
    /\ page_count = 0
    /\ i = 0
    /\ ocr_used = 0
    /\ records = <<>>
    /\ page \in ColumnPages
    /\ txt = <<>>
    /\ is_ocr = FALSE
    /\ pc = "input"
    /\ cur = NoCur
    /\ trace = <<>>
    /\ ocr_calls = 0
    /\ items = <<>>
    /\ cols = NoSplit(<<>>)
    /\ NoRowCall
    /\ NoIngestCall
    /\ NoS3Call
    /\ NoCleanCall
    /\ NoUpsertCall

\* page_text_layout(page), with the result of its _items_to_columns call.
LayoutPage ==
    /\ pc = "input"
    /\ \E lay \in {PageLayout(page)} :
         /\ items' = lay.items
         /\ cols' = lay.cols
         /\ txt' = lay.text
    /\ pc' = "output"
    /\ UNCHANGED <<ingestVars, s3Vars>>
    /\ UNCHANGED <<rowVars, cleanVars, upsertVars>>
    /\ UNCHANGED <<ALLOW_OCR, MAX_OCR_PAGES, total_pdfs, page_count, i,
                   ocr_used, records, page, is_ocr, cur, trace, ocr_calls>>

NextColumns == LayoutPage

SpecColumns == InitColumns /\ [][NextColumns]_vars

(***************************************************************************)
(* Properties of the page layout, checked under SpecColumns.               *)
(***************************************************************************)
\* The places of the largest gaps between adjacent sorted centers.
LargestGaps(centers) ==
    {j \in 1..(Len(centers) - 1) :
        \A m \in 1..(Len(centers) - 1) :
           GapAt(centers, m) <= GapAt(centers, j)}

\* The (quadrupled) midpoint of the gap after the j-th sorted center.
MidAt(centers, j) == centers[j] + centers[j + 1]

\* The three checks on the gap after the j-th sorted center: edge margin,
\* central band 35%-65%, width of the gap.
PassesChecks(centers, j, w) ==
    /\ 4 * EDGE_MARGIN_RATIO * w < 100 * MidAt(centers, j)
    /\ 100 * MidAt(centers, j) < 4 * (100 - EDGE_MARGIN_RATIO) * w
    /\ 4 * 35 * w <= 100 * MidAt(centers, j)
    /\ 100 * MidAt(centers, j) <= 4 * 65 * w
    /\ 100 * GapAt(centers, j) >= 2 * MIN_GAP_RATIO * w

\* C8: a split's gutter is the midpoint of a largest gap between adjacent
\* sorted centers of the gutter search set, and that gap passes the edge,
\* band and width checks; without a split all fragments come back as one
\* group; a largest gap that fails a check, such as the only largest gap
\* centred at 20% of the page width, gives no split.
C8_SplitOnlyAtCheckedLargestGap ==
    (pc = "output" /\ items # <<>>) =>
      \A centers \in {SortedCenters(WorkSet(items))} :
        /\ cols.gutter # <<>> =>
             \E j \in LargestGaps(centers) :
                /\ cols.gutter = <<MidAt(centers, j)>>
                /\ PassesChecks(centers, j, page.width)
        /\ cols.gutter = <<>> => (cols.left = items /\ cols.right = <<>>)
        /\ (\A j \in LargestGaps(centers) :
               ~PassesChecks(centers, j, page.width)) => cols.gutter = <<>>
        /\ (\E j \in LargestGaps(centers) :
               /\ LargestGaps(centers) = {j}
               /\ 5 * MidAt(centers, j) = 4 * page.width) => cols.gutter = <<>>

\* A split of a page whose header or footer was trimmed from the gutter
\* search set.
C8_Witness ==
    /\ pc = "output"
    /\ cols.gutter # <<>>
    /\ Len(WorkSet(items)) < Len(items)
    /\ Len(cols.left) + Len(cols.right) = Len(items)

\* Fragment a lies on a row above fragment b's.
Above(a, b) == b.y - a.y > Y_TOL

\* Fragments a and b lie on one row, a to the left of b.
LeftOnRow(a, b) == Abs(a.y - b.y) <= Y_TOL /\ a.x < b.x

\* Text t is the fragments' texts, one per line, rows top to bottom and the
\* fragments of a row in x order.  (The pages checked hold a different
\* one-character text in each fragment, their rows lie 14 points apart and
\* the lines of a row 1.5 points.)
InReadingOrder(its, t) ==
    \A lines \in {SplitLines(t)} :
      /\ Len(lines) = Len(its)
      /\ \A a \in 1..Len(its) : \E q \in 1..Len(lines) : lines[q] = its[a].text
      /\ \A a, b \in 1..Len(its) :
           (Above(its[a], its[b]) \/ LeftOnRow(its[a], its[b])) =>
             \E q, r \in 1..Len(lines) :
                q < r /\ lines[q] = its[a].text /\ lines[r] = its[b].text

\* C9: a page with fewer than 8 fragments never splits: _items_to_columns
\* returns all fragments, in their order, as one group with no gutter, and
\* the page text is the single-column reading-order join, two fragments of
\* a row in x order.
C9_FewFragmentsNeverSplit ==
    (pc = "output" /\ Len(items) < 8) =>
      /\ cols = [left |-> items, right |-> <<>>, gutter |-> <<>>]
      /\ txt = Strip(join_items(items))
      /\ InReadingOrder(items, txt)

\* A page of 7 fragments whose largest gap passes every check, and with two
\* fragments of a row collected right one first.
C9_Witness ==
    /\ pc = "output"
    /\ Len(items) = 7
    /\ \E j \in LargestGaps(SortedCenters(items)) :
          PassesChecks(SortedCenters(items), j, page.width)
    /\ \E a, b \in 1..Len(items) :
          a < b /\ LeftOnRow(items[b], items[a])

\* The places j in the sorted centers of all fragments that part them into
\* two well-separated clusters: at least MIN_BLOCKS_PER_COLUMN fragments on
\* each side, the gap wider than every other gap and at least
\* MIN_GAP_RATIO * w, its midpoint in the 35%-65% band.
ClusterGaps(centers, w) ==
    {j \in 1..(Len(centers) - 1) :
        /\ j >= MIN_BLOCKS_PER_COLUMN
        /\ Len(centers) - j >= MIN_BLOCKS_PER_COLUMN
        /\ \A m \in 1..(Len(centers) - 1) :
              m # j => GapAt(centers, m) < GapAt(centers, j)
        /\ 100 * GapAt(centers, j) >= 2 * MIN_GAP_RATIO * w
        /\ 4 * 35 * w <= 100 * MidAt(centers, j)
        /\ 100 * MidAt(centers, j) <= 4 * 65 * w}

\* The split of the fragments its into the clusters left and right of the
\* gap after the j-th of their sorted centers.
SplitIntoClusters(its, centers, j, c) ==
    /\ c.gutter # <<>>
    /\ c.left = SelectSeq(its, LAMBDA it : Center2(it) <= centers[j])
    /\ c.right = SelectSeq(its, LAMBDA it : Center2(it) >= centers[j + 1])

\* The strictly largest gap of the search set's sorted centers wc has the
\* (quadrupled) midpoint mid4.
SearchSetAgrees(wc, mid4) ==
    \E m \in 1..(Len(wc) - 1) :
       /\ MidAt(wc, m) = mid4
       /\ \A q \in 1..(Len(wc) - 1) : q # m => GapAt(wc, q) < GapAt(wc, m)

\* C10 as stated: a page of at least 2 * MIN_BLOCKS_PER_COLUMN fragments in
\* two well-separated clusters of at least MIN_BLOCKS_PER_COLUMN each,
\* whose separating gap is at least MIN_GAP_RATIO * width with its midpoint
\* in the 35%-65% band, splits into the two clusters.
C10_ClustersMustSplit ==
    (pc = "output" /\ Len(items) >= 2 * MIN_BLOCKS_PER_COLUMN) =>
      \A centers \in {SortedCenters(items)} :
        \A j \in ClusterGaps(centers, page.width) :
           SplitIntoClusters(items, centers, j, cols)

\* C10 amended: such a page splits into the two clusters provided the
\* separating gap's midpoint is also the midpoint of the strictly largest
\* gap of the gutter search set (the fragments left by the header/footer
\* trim), as it always is on a page of fewer than 13 fragments.
C10_ClustersOfSearchSetMustSplit ==
    (pc = "output" /\ Len(items) >= 2 * MIN_BLOCKS_PER_COLUMN) =>
      \A centers \in {SortedCenters(items)} :
        \A wc \in {SortedCenters(WorkSet(items))} :
          /\ Len(items) < 13 => wc = centers
          /\ \A j \in ClusterGaps(centers, page.width) :
               SearchSetAgrees(wc, MidAt(centers, j)) =>
                 SplitIntoClusters(items, centers, j, cols)

\* A page of exactly 8 fragments in two clusters of 4 has been split into
\* them.
C10_Witness ==
    /\ pc = "output"
    /\ Len(items) = 8
    /\ ClusterGaps(SortedCenters(items), page.width) # {}
    /\ Len(cols.left) = 4
    /\ Len(cols.right) = 4
    /\ cols.gutter # <<>>

\* The fragments of its whose center is at most mid (quadrupled: mid4).
LeftOf(its, mid4) == SelectSeq(its, LAMBDA it : 2 * Center2(it) <= mid4)

\* The fragments of its whose center is greater than mid.
RightOf(its, mid4) == SelectSeq(its, LAMBDA it : 2 * Center2(it) > mid4)

\* The place of the first largest gap of the sorted centers (0 if none).
FirstLargestGap(centers) ==
    IF LargestGaps(centers) = {} THEN 0
    ELSE CHOOSE j \in LargestGaps(centers) :
            \A m \in LargestGaps(centers) : j <= m

\* C11: when the gutter passes the checks, all fragments of the page are
\* parted by center <= mid; the split is kept only if both sides have at
\* least MIN_BLOCKS_PER_COLUMN fragments and otherwise all fragments come
\* back as one group.  On every split each side has that many fragments
\* and every left center <= mid < every right center.
C11_PartitionOfAllFragments ==
    (pc = "output" /\ Len(items) >= 8) =>
      \A centers \in {SortedCenters(WorkSet(items))} :
        /\ cols.gutter # <<>> =>
             /\ cols.left = LeftOf(items, cols.gutter[1])
             /\ cols.right = RightOf(items, cols.gutter[1])
             /\ Len(cols.left) >= MIN_BLOCKS_PER_COLUMN
             /\ Len(cols.right) >= MIN_BLOCKS_PER_COLUMN
        /\ \A j \in {FirstLargestGap(centers)} :
             (j # 0 /\ PassesChecks(centers, j, page.width)) =>
               IF /\ Len(LeftOf(items, MidAt(centers, j)))
                       >= MIN_BLOCKS_PER_COLUMN
                  /\ Len(RightOf(items, MidAt(centers, j)))
                       >= MIN_BLOCKS_PER_COLUMN
               THEN cols = [left |-> LeftOf(items, MidAt(centers, j)),
                            right |-> RightOf(items, MidAt(centers, j)),
                            gutter |-> <<MidAt(centers, j)>>]
               ELSE cols = [left |-> items, right |-> <<>>, gutter |-> <<>>]

\* A split of a page of at least 13 fragments in which a fragment trimmed
\* from the gutter search set has been given a side.
C11_Witness ==
    /\ pc = "output"
    /\ cols.gutter # <<>>
    /\ Len(items) >= 13
    /\ Len(WorkSet(items)) < Len(items)
    /\ Len(cols.left) + Len(cols.right) = Len(items)
    /\ Len(cols.right) = MIN_BLOCKS_PER_COLUMN


(***************************************************************************)
(* page_text_layout on pages whose lines share y values: the two lines of  *)
(* a body row start at the same y, and so do two headers or two footers.   *)
(***************************************************************************)
MaxTieRows == 7

\* The text of the m-th line of a page: two characters.
TieText(m) ==
    <<ItemChars[((m - 1) % Len(ItemChars)) + 1],
      ItemChars[((m - 1) \div Len(ItemChars)) + 1]>>

\* A text block with one line of one span, of geometry g at height y0.
TieBlock(g, y0, m) ==
    [type |-> 0,
     lines |-> << [bbox |-> <<ColGeoms[g][1], y0, ColGeoms[g][2], y0 + 10000>>,
                   spans |-> << [text |-> TieText(m)] >>] >>]

\* <<geometry, y0>> of the lines of a page with nh headers at one height,
\* a rows of a left and a right line at one height, then b single left
\* lines and c single right lines, and nf footers at one height.
TieLines(nh, a, b, c, nf) ==
    [m \in 1..nh |-> <<IF m = 1 THEN 3 ELSE 5, 50000>>]
    \o [m \in 1..(2 * a) |->
          <<IF m % 2 = 1 THEN 2 ELSE 4, 100000 + 14000 * ((m - 1) \div 2)>>]
    \o [m \in 1..b |-> <<2, 100000 + 14000 * (a + m - 1)>>]
    \o [m \in 1..c |-> <<4, 100000 + 14000 * (a + b + m - 1)>>]
    \o [m \in 1..nf |-> <<IF m = 1 THEN 5 ELSE 3, 750000>>]

TiePage(w, nh, a, b, c, nf) ==
    LET ls == TieLines(nh, a, b, c, nf)
    IN  [width |-> w,
         dict |-> [blocks |-> [m \in 1..Len(ls) |->
                                 TieBlock(ls[m][1], ls[m][2], m)]]]

TiePages ==
    {TiePage(w, nh, a, b, c, nf) :
        w \in ColWidths, nh \in 0..2, a \in 0..MaxTieRows, b \in 0..3,
        c \in 0..3, nf \in 0..2}

\* Lines per block of the pages below.
MaxRichLines == 2

\* The bbox of line l of block b: lines one below the other.
RichBox(b, l) ==
    <<72000, 100000 + 40000 * b + 14000 * l, 300000,
      110000 + 40000 * b + 14000 * l>>

\* Line l of block b in one of nine shapes: plain; text with whitespace
\* around it; whitespace only; no "spans" key; no span; a span without
\* "text" before one with it; no "bbox" key and leading whitespace; a
\* "\r\n" across two spans and trailing whitespace; one span without
\* "text".
RichLine(shape, b, l) ==
    CASE shape = 1 ->
           [bbox |-> RichBox(b, l),
            spans |-> << [text |-> <<ItemChars[2 * b + l]>>] >>]
      [] shape = 2 ->
           [bbox |-> RichBox(b, l),
            spans |-> << [text |-> <<" ", ItemChars[2 * b + l], " ">>] >>]
      [] shape = 3 ->
           [bbox |-> RichBox(b, l),
            spans |-> << [text |-> <<" ", "\t">>], [text |-> <<"\n">>] >>]
      [] shape = 4 -> [bbox |-> RichBox(b, l)]
      [] shape = 5 -> [bbox |-> RichBox(b, l), spans |-> <<>>]
      [] shape = 6 ->
           [bbox |-> RichBox(b, l),
            spans |-> << [size |-> 9], [text |-> <<ItemChars[2 * b + l]>>] >>]
      [] shape = 7 ->
           [spans |-> << [text |-> <<" ", ItemChars[2 * b + l]>>] >>]
      [] shape = 8 ->
           [bbox |-> RichBox(b, l),
            spans |-> << [text |-> <<ItemChars[2 * b + l], "\r">>],
                         [text |-> <<"\n", ItemChars[2 * b + l + 1], " ">>] >>]
      [] OTHER -> [bbox |-> RichBox(b, l), spans |-> << [size |-> 9] >>]

\* Block b with lines of the given shapes: a text block, an image block,
\* or a block without a "type" key.
RichBlock(kind, shapes, b) ==
    LET lines == [l \in 1..Len(shapes) |-> RichLine(shapes[l], b, l)]
    IN  CASE kind = "text" -> [type |-> 0, lines |-> lines]
          [] kind = "image" -> [type |-> 1, lines |-> lines]
          [] OTHER -> [lines |-> lines]

RichBlocks(b) ==
    {[type |-> 0]}
    \cup UNION {{RichBlock(kind, shapes, b) :
                   kind \in {"text", "image", "untyped"},
                   shapes \in [1..n -> 1..9]} : n \in 0..MaxRichLines}

\* Pages 612 points wide: without a "blocks" key, with one block, or with
\* a second block after it that is a text block of a plain line and a line
\* with whitespace around its text, or an image block of a plain line.
RichPages ==
    {[width |-> 612000, dict |-> <<>>]}
    \cup {[width |-> 612000, dict |-> [blocks |-> <<b1>> \o rest]] :
            b1 \in RichBlocks(0),
            rest \in {<<>>, <<RichBlock("text", <<2, 1>>, 1)>>,
                      <<RichBlock("image", <<1>>, 1)>>}}

LayoutPages == TiePages \cup RichPages

InitLayout ==
    /\ ALLOW_OCR = TRUE
    /\ MAX_OCR_PAGES = 20
    /\ total_pdfs = 0
    /\ page_count = 0
    /\ i = 0
    /\ ocr_used = 0
    /\ records = <<>>
    /\ page \in LayoutPages
    /\ txt = <<>>
    /\ is_ocr = FALSE
    /\ pc = "input"
    /\ cur = NoCur
    /\ trace = <<>>
    /\ ocr_calls = 0
    /\ items = <<>>
    /\ cols = NoSplit(<<>>)
    /\ NoRowCall
    /\ NoIngestCall
    /\ NoS3Call
    /\ NoCleanCall
    /\ NoUpsertCall

NextLayout == LayoutPage

SpecLayout == InitLayout /\ [][NextLayout]_vars

\* The y values of its, ascending.
SortedYs(its) == SortInts([j \in 1..Len(its) |-> its[j].y])

\* work is its without k fragments of lowest y and k of highest y.
DropsLowestAndHighest(its, work, k) ==
    /\ Len(work) = Len(its) - 2 * k
    /\ work = SelectSeq(its, LAMBDA it : \E j \in 1..Len(work) : work[j] = it)
    /\ SortedYs(work) = SubSeq(SortedYs(its), k + 1, Len(its) - k)

\* C12: the gutter search set is the fragment list without the k fragments
\* of lowest y and the k of highest y, k = floor(count * 0.08), so it has
\* exactly count - 2k fragments, when that leaves at least
\* max(4, 2 * MIN_BLOCKS_PER_COLUMN); otherwise it is the full list.  Also
\* when several fragments share a y.
C12_SearchSetDropsExactly2k ==
    (pc = "output" /\ Len(items) >= need) =>
      \A work \in {WorkSet(items)} :
        IF Len(items) - 2 * TrimK(Len(items)) >= need
        THEN DropsLowestAndHighest(items, work, TrimK(Len(items)))
        ELSE work = items


(***************************************************************************)
(* _sort_items on its own (main.py lines 201-219): lists of up to          *)
(* MaxRowItems fragments, in one block or in blocks of their own.          *)
(***************************************************************************)
MaxRowItems == 4

\* y0 of the fragments: 0, 2, 2.001 and 3 points.
RowYs == {0, 2000, 2001, 3000}

\* x0 of the j-th fragment, by the pattern q of the list: all at 10 points;
\* 10.004 and 10 in turn; 50 and 10 in turn; 10.004, 10, 50, then all 10.
RowX(q, j) ==
    CASE q = 1 -> 10000
      [] q = 2 -> IF j % 2 = 1 THEN 10004 ELSE 10000
      [] q = 3 -> IF j % 2 = 1 THEN 50000 ELSE 10000
      [] OTHER -> IF j = 1 THEN 10004 ELSE IF j = 3 THEN 50000 ELSE 10000

\* The j-th fragment of an input list.
RowItem(j, y0, x0, b) ==
    [bidx |-> b, y |-> y0, x |-> x0, x1 |-> x0 + 30000,
     text |-> <<ItemChars[j]>>]

\* The lists of fragments with the y values f and the x pattern q, all of
\* one block (same) or each of a block of its own.
RowInput(f, q, same) ==
    [j \in 1..Len(f) |->
        RowItem(j, f[j], RowX(q, j), IF same THEN 0 ELSE j - 1)]

RowInputs ==
    UNION {{RowInput(f, q, same) :
              f \in [1..n -> RowYs], q \in 1..4, same \in BOOLEAN} :
           n \in 0..MaxRowItems}

InitRows ==
    /\ ALLOW_OCR = TRUE
    /\ MAX_OCR_PAGES = 20
    /\ total_pdfs = 0
    /\ page_count = 0
    /\ i = 0
    /\ ocr_used = 0
    /\ records = <<>>
    /\ page = NoPage
    /\ txt = <<>>
    /\ is_ocr = FALSE
    /\ pc = "input"
    /\ cur = NoCur
    /\ trace = <<>>
    /\ ocr_calls = 0
    /\ items \in RowInputs
    /\ cols = NoSplit(<<>>)
    /\ NoRowCall
    /\ NoIngestCall
    /\ NoS3Call
    /\ NoCleanCall
    /\ NoUpsertCall

\* _sort_items(items): the rows it builds and the list it returns.
SortItems ==
    /\ pc = "input"
    /\ \E rs \in {Rows(items)} :
         /\ rows' = rs
         /\ ordered' = Concat(rs)
    /\ pc' = "output"
    /\ UNCHANGED <<ingestVars, s3Vars>>
    /\ UNCHANGED <<cleanVars, upsertVars>>
    /\ UNCHANGED <<ALLOW_OCR, MAX_OCR_PAGES, total_pdfs, page_count, i,
                   ocr_used, records, page, txt, is_ocr, cur, trace,
                   ocr_calls, items, cols>>

NextRows == SortItems

SpecRows == InitRows /\ [][NextRows]_vars

RECURSIVE SumTo(_, _)
\* w[1] + ... + w[n]
SumTo(w, n) == IF n = 0 THEN 0 ELSE w[n] + SumTo(w, n - 1)

\* The y values of the rows, each ascending: the order of the scan.
RowYsOf(rs) == [r \in 1..Len(rs) |-> SortedYs(rs[r])]

\* The rows are consecutive runs of the fragments in ascending y.
RowsAreRuns(its, rs) ==
    /\ \A r \in 1..Len(rs) : rs[r] # <<>>
    /\ Concat(RowYsOf(rs)) = SortedYs(its)

\* y is within Y_TOL of the mean of the first n values of ys.
NearMean(y, ys, n) == Abs(n * y - SumTo(ys, n)) <= n * Y_TOL

\* 2^(n-1) times the running value after the first n values of ys: the
\* first value, then half the sum of the running value and the next one.
RunningTimesPow(ys, n) ==
    ys[1] + SumTo([t \in 1..(n - 1) |-> Pow2(t - 1) * ys[t + 1]], n - 1)

\* y is within Y_TOL of the running value after the first n values of ys.
NearRunning(y, ys, n) ==
    Abs(Pow2(n - 1) * y - RunningTimesPow(ys, n)) <= Pow2(n - 1) * Y_TOL

\* The test against the mean or against the running value.
Near(mean, y, ys, n) ==
    IF mean THEN NearMean(y, ys, n) ELSE NearRunning(y, ys, n)

\* Every fragment after the first of a row passed the test against the
\* fragments before it in the row, and the first fragment of the next row
\* failed the test against the whole row.
GroupedBy(its, rs, mean) ==
    /\ RowsAreRuns(its, rs)
    /\ \A ry \in {RowYsOf(rs)} :
         \A r \in 1..Len(ry) :
           /\ \A j \in 2..Len(ry[r]) : Near(mean, ry[r][j], ry[r], j - 1)
           /\ r < Len(ry) => ~Near(mean, ry[r + 1][1], ry[r], Len(ry[r]))

\* C13 as stated: a fragment joins the current row exactly when its y is
\* within Y_TOL of the average of the y values of the fragments already in
\* the row; otherwise it starts a new row.
C13_JoinsIffNearRowMean ==
    pc = "output" => GroupedBy(items, rows, TRUE)

\* C13 amended: a fragment joins the current row exactly when its y is
\* within Y_TOL of the running value, which is the y of the row's first
\* fragment and after every join half the sum of itself and the joining
\* fragment's y; otherwise it starts a new row at its own y.
C13_JoinsIffNearRunningValue ==
    pc = "output" => GroupedBy(items, rows, FALSE)

\* A row of three fragments whose running value differs from its mean, and
\* a fourth fragment that joins it.
C13_Witness ==
    /\ pc = "output"
    /\ Len(rows) = 1
    /\ Len(rows[1]) = 4
    /\ \E ys \in {SortedYs(rows[1])} :
         /\ RunningTimesPow(ys, 3) * 3 # SumTo(ys, 3) * 4
         /\ NearRunning(ys[4], ys, 3)


\* C14: two fragments whose y values differ by exactly Y_TOL are placed in
\* the same row; two whose y values differ by more than Y_TOL are placed
\* in two rows, the lower one (greater y) starting the second.
C14_RowBoundaryInclusive ==
    (pc = "output" /\ Len(items) = 2) =>
      /\ Abs(items[1].y - items[2].y) = Y_TOL =>
           /\ Len(rows) = 1
           /\ Len(rows[1]) = 2
      /\ Abs(items[1].y - items[2].y) > Y_TOL =>
           /\ Len(rows) = 2
           /\ Len(rows[1]) = 1
           /\ Len(rows[2]) = 1
           /\ rows[1][1].y < rows[2][1].y

\* Two fragments exactly Y_TOL apart, the lower one given first, in one
\* row.
C14_Witness ==
    /\ pc = "output"
    /\ Len(items) = 2
    /\ items[1].y - items[2].y = Y_TOL
    /\ Len(rows) = 1

\* Two fragments a thousandth of a point more than Y_TOL apart, in two
\* rows.
C14_WitnessApart ==
    /\ pc = "output"
    /\ Len(items) = 2
    /\ items[1].y - items[2].y = Y_TOL + 1
    /\ Len(rows) = 2


\* The place of fragment a in a row is not after that of b by the key
\* (round(x, 2), bidx).
KeyNotAfter(a, b) ==
    \/ Round2(a.x) < Round2(b.x)
    \/ (Round2(a.x) = Round2(b.x) /\ a.bidx <= b.bidx)

\* C15: in the output, rows appear top to bottom (every fragment of an
\* earlier row has y <= every fragment of a later row) and within each row
\* the fragments are in non-decreasing order of (round(x, 2), bidx).
C15_RowsTopDownKeysAscending ==
    pc = "output" =>
      /\ ordered = Concat(rows)
      /\ \A r \in 1..Len(rows) : \A q \in 1..Len(rows) :
           r < q => \A a \in 1..Len(rows[r]) : \A b \in 1..Len(rows[q]) :
                      rows[r][a].y <= rows[q][b].y
      /\ \A r \in 1..Len(rows) : \A a \in 1..(Len(rows[r]) - 1) :
           KeyNotAfter(rows[r][a], rows[r][a + 1])

\* Two rows; in one, a fragment lower on the page comes first because it
\* is further left; in the other, two fragments with equal rounded x are
\* in block order although the second has the smaller x.
C15_Witness ==
    /\ pc = "output"
    /\ Len(rows) = 2
    /\ \E r \in 1..2 : \E a \in 1..(Len(rows[r]) - 1) :
         /\ Round2(rows[r][a].x) < Round2(rows[r][a + 1].x)
         /\ rows[r][a].y > rows[r][a + 1].y
    /\ \E r \in 1..2 : \E a \in 1..(Len(rows[r]) - 1) :
         /\ rows[r][a].x > rows[r][a + 1].x
         /\ Round2(rows[r][a].x) = Round2(rows[r][a + 1].x)
         /\ rows[r][a].bidx < rows[r][a + 1].bidx


\* The list its in the order f, a permutation of its indices.
Permuted(its, f) == [j \in 1..Len(its) |-> its[f[j]]]

\* C16: the key (round(x, 2), bidx) is total on the fragments of a row (no
\* two fragments of a row have the same key), and the output does not
\* depend on the order of the input list: every permutation of the input
\* gives the same output sequence.
C16_OrderOfInputIrrelevant ==
    pc = "output" =>
      /\ \A r \in 1..Len(rows) : \A a \in 1..Len(rows[r]) :
           \A b \in 1..Len(rows[r]) :
             (a # b) => <<Round2(rows[r][a].x), rows[r][a].bidx>>
                          # <<Round2(rows[r][b].x), rows[r][b].bidx>>
      /\ \A f \in Permutations(1..Len(items)) :
           _sort_items(Permuted(items, f)) = ordered

\* C16 for lists whose fragments come from blocks of their own: every
\* permutation of the input gives the same output sequence.
C16_OwnBlocksOrderIrrelevant ==
    (/\ pc = "output"
     /\ \A a \in 1..Len(items) : \A b \in 1..Len(items) :
          (a # b) => items[a].bidx # items[b].bidx) =>
      \A f \in Permutations(1..Len(items)) :
        _sort_items(Permuted(items, f)) = ordered


RECURSIVE OnePerLine(_, _)
\* The texts of its from the j-th on, each on a line of its own.
OnePerLine(its, j) ==
    IF j > Len(its) THEN <<>>
    ELSE IF j = Len(its) THEN its[j].text
    ELSE its[j].text \o <<"\n">> \o OnePerLine(its, j + 1)

\* The reading-order text of a group of fragments.
ReadingText(its) ==
    Bind(_sort_items(its), LAMBDA srt : OnePerLine(srt, 1))

\* The page text put together from the groups: left, a blank line, right,
\* a column left out with its separator when it is empty; or the single
\* group.
Composed(its, c) ==
    IF its = <<>> THEN <<>>
    ELSE IF c.gutter = <<>> THEN ReadingText(its)
    ELSE IF c.left = <<>> THEN ReadingText(c.right)
    ELSE IF c.right = <<>> THEN ReadingText(c.left)
    ELSE ReadingText(c.left) \o <<"\n", "\n">> \o ReadingText(c.right)

\* C17 as stated: the page text is the left column's reading-order text, a
\* blank line, the right column's reading-order text (a column left out
\* when empty), or the single group's reading-order text when there is no
\* split; every fragment's text on a line of its own; the empty string for
\* a page without fragments.
C17_PageTextIsComposition ==
    pc = "output" => txt = Composed(items, cols)

\* C17 amended: the page text is that composition with the whitespace at
\* its start and end removed.
C17_PageTextIsStrippedComposition ==
    pc = "output" => txt = Strip(Composed(items, cols))

\* A split page: both columns' texts with one blank line between them.
C17_Witness ==
    /\ pc = "output"
    /\ cols.gutter # <<>>
    /\ txt = ReadingText(cols.left) \o <<"\n", "\n">> \o ReadingText(cols.right)
    /\ Len(SplitLines(txt)) = Len(items) + 1

\* A page without a split whose first fragment in reading order starts
\* with whitespace, which the page text does not.
C17_WitnessLeadingSpace ==
    /\ pc = "output"
    /\ Len(items) >= 2
    /\ cols.gutter = <<>>
    /\ Composed(items, cols)[1] \in Whitespace
    /\ txt = Strip(Composed(items, cols))


(***************************************************************************)
(* remove_orphan_enumerators on its own (main.py lines 242-271): texts of  *)
(* up to MaxCleanLines lines.                                              *)
(***************************************************************************)
MaxCleanLines == 4

\* The lines the texts are made of: bare enumerators "A." and "(1)", an
\* empty line, content "cd", a line of one space, and the bare enumerator
\* "iv." with a space on either side.
CleanLinePool ==
    { <<"A", ".">>, <<>>, <<"(", "1", ")">>, <<"c", "d">>, <<" ">>,
      <<" ", "i", "v", ".", " ">> }

\* The lines "A.", "", "(1)", "content", "B.", "end".
MarkerExample ==
    << <<"A", ".">>, <<>>, <<"(", "1", ")">>,
       <<"c", "o", "n", "t", "e", "n", "t">>, <<"B", ".">>,
       <<"e", "n", "d">> >>

\* The lines joined by "\n", with or without a "\n" after the last one.
CleanInputs ==
    LET lists == {MarkerExample}
                 \cup UNION {[1..n -> CleanLinePool] : n \in 0..MaxCleanLines}
    IN  {Join(<<"\n">>, ls) \o tail : ls \in lists, tail \in {<<>>, <<"\n">>}}

InitCleaner ==
    /\ ALLOW_OCR = TRUE
    /\ MAX_OCR_PAGES = 20
    /\ total_pdfs = 0
    /\ page_count = 0
    /\ i = 0
    /\ ocr_used = 0
    /\ records = <<>>
    /\ page = NoPage
    /\ txt = <<>>
    /\ is_ocr = FALSE
    /\ pc = "input"
    /\ cur = NoCur
    /\ trace = <<>>
    /\ ocr_calls = 0
    /\ items = <<>>
    /\ cols = NoSplit(<<>>)
    /\ NoRowCall
    /\ NoIngestCall
    /\ NoS3Call
    /\ text \in CleanInputs
    /\ out = <<>>
    /\ cleaned = <<>>
    /\ NoUpsertCall

\* remove_orphan_enumerators(text): the lines it keeps and the text it
\* returns.
RemoveOrphanEnumerators ==
    /\ pc = "input"
    /\ \E kept \in {CleanLines(SplitLines(text))} :
         /\ out' = kept
         /\ cleaned' = Join(<<"\n">>, kept)
    /\ pc' = "output"
    /\ UNCHANGED <<ingestVars, s3Vars>>
    /\ UNCHANGED <<rowVars, upsertVars, text>>
    /\ UNCHANGED <<ALLOW_OCR, MAX_OCR_PAGES, total_pdfs, page_count, i,
                   ocr_used, records, page, txt, is_ocr, cur, trace,
                   ocr_calls, items, cols>>

NextCleaner == RemoveOrphanEnumerators

SpecCleaner == InitCleaner /\ [][NextCleaner]_vars

\* Line j of ls has a later line that is not blank, and the first such
\* line is not a bare enumerator.
ContentFollows(ls, j) ==
    \E k \in (j + 1)..Len(ls) :
      /\ Strip(ls[k]) # <<>>
      /\ \A m \in (j + 1)..(k - 1) : Strip(ls[m]) = <<>>
      /\ ~is_bare_enum(ls[k])

\* The bare-enumerator lines of ls that content follows, in order.
EnumeratorsToKeep(ls) ==
    Bind(SelectSeq(Indices(Len(ls)),
                   LAMBDA j : is_bare_enum(ls[j]) /\ ContentFollows(ls, j)),
         LAMBDA js : [q \in 1..Len(js) |-> ls[js[q]]])

\* C18: a bare-enumerator line is kept if and only if there is a later
\* non-blank line and the first such line is not itself a bare enumerator,
\* judged on the lines of the input: the bare enumerators of the output
\* are exactly those lines of the input, in order.
C18_KeptIffContentFollows ==
    pc = "output" =>
      SelectSeq(out, is_bare_enum) = EnumeratorsToKeep(SplitLines(text))

\* The text "A.", "", "(1)", "content", "B.", "end": "A." is removed,
\* "(1)" and "B." are kept.
C18_Witness ==
    /\ pc = "output"
    /\ SplitLines(text) = MarkerExample
    /\ out = SubSeq(MarkerExample, 2, 6)

\* A text that ends with a bare enumerator and blank lines: the
\* enumerator is removed and the one before it, which content follows,
\* is kept.
C18_WitnessTrailing ==
    /\ pc = "output"
    /\ \E ls \in {SplitLines(text)} :
         /\ Len(ls) = 4
         /\ is_bare_enum(ls[1])
         /\ ~is_bare_enum(ls[2]) /\ Strip(ls[2]) # <<>>
         /\ is_bare_enum(ls[3])
         /\ Strip(ls[4]) = <<>>
         /\ out = <<ls[1], ls[2], ls[4]>>


\* The blocks of page p and the lines of its b-th block.
BlocksOf(p) == IF "blocks" \in DOMAIN p.dict THEN p.dict.blocks ELSE <<>>
LinesOf(p, b) ==
    IF "lines" \in DOMAIN BlocksOf(p)[b] THEN BlocksOf(p)[b].lines ELSE <<>>

\* <<b, l>> for every line l of every block b of page p, in source order.
SourceLines(p) ==
    Concat([b \in 1..Len(BlocksOf(p)) |->
              [l \in 1..Len(LinesOf(p, b)) |-> <<b, l>>]])

\* The texts of the spans of a line, one after the other; nothing for a
\* line without spans or a span without text.
SpanText(ln) ==
    IF "spans" \notin DOMAIN ln THEN <<>>
    ELSE Concat([q \in 1..Len(ln.spans) |->
                   IF "text" \in DOMAIN ln.spans[q] THEN ln.spans[q].text
                   ELSE <<>>])

\* Line bl = <<b, l>> of page p is a line of a text block and its spans'
\* text has a character that is not whitespace.
IsCollected(p, bl) ==
    /\ ("type" \in DOMAIN BlocksOf(p)[bl[1]] => BlocksOf(p)[bl[1]].type = 0)
    /\ \E ch \in 1..Len(SpanText(LinesOf(p, bl[1])[bl[2]])) :
         SpanText(LinesOf(p, bl[1])[bl[2]])[ch] \notin Whitespace

\* Fragment it is what line bl = <<b, l>> of page p gives: the block's
\* index, the line's bbox or zeros, and the spans' text with line breaks
\* normalized and nothing but whitespace cut from its end.
IsFragmentOf(p, it, bl) ==
    LET ln == LinesOf(p, bl[1])[bl[2]]
        box == IF "bbox" \in DOMAIN ln THEN ln.bbox ELSE <<0, 0, 0, 0>>
        raw == NormalizeNewlines(SpanText(ln))
    IN  /\ it.bidx = bl[1] - 1
        /\ it.x = box[1] /\ it.y = box[2] /\ it.x1 = box[3]
        /\ Len(it.text) <= Len(raw)
        /\ it.text = SubSeq(raw, 1, Len(it.text))
        /\ \A ch \in (Len(it.text) + 1)..Len(raw) : raw[ch] \in Whitespace

\* C19: every collected fragment has text that is not empty, not only
\* whitespace and without trailing whitespace; the fragments are, in
\* source order, those of the lines of text blocks whose span text is not
\* blank (lines without spans, blank lines and lines of image blocks give
\* none), each with the index of its block; a missing bbox gives zeros and
\* a missing span text the empty string.
C19_CollectorInvariants ==
    pc = "output" =>
      /\ \A j \in 1..Len(items) :
           /\ items[j].text # <<>>
           /\ items[j].text[Len(items[j].text)] \notin Whitespace
      /\ \A src \in {SelectSeq(SourceLines(page),
                               LAMBDA bl : IsCollected(page, bl))} :
           /\ Len(items) = Len(src)
           /\ \A j \in 1..Len(src) : IsFragmentOf(page, items[j], src[j])

\* A page of a text block and an image block with a line: the text
\* block's line without bbox is collected with zeros, its line whose only
\* span has no text is not, and neither is the image block's line.
C19_Witness ==
    /\ pc = "output"
    /\ Len(BlocksOf(page)) = 2
    /\ BlocksOf(page)[2].type = 1
    /\ Len(LinesOf(page, 2)) = 1
    /\ Len(LinesOf(page, 1)) = 2
    /\ "bbox" \notin DOMAIN LinesOf(page, 1)[1]
    /\ "spans" \in DOMAIN LinesOf(page, 1)[2]
    /\ Len(LinesOf(page, 1)[2].spans) = 1
    /\ "text" \notin DOMAIN LinesOf(page, 1)[2].spans[1]
    /\ Len(items) = 1
    /\ items[1].y = 0
    /\ items[1].bidx = 0


(***************************************************************************)
(* upsert (rag_ingest/upsert.py lines 58-96): the index receives one       *)
(* index.upsert call per batch; sent is the list of the batches received.  *)
(***************************************************************************)
MaxVectors == 6
MaxBatch == 3

\* The arguments for n ids when the list number which (1 dense_vectors, 2
\* sparse_vectors, 3 metadata) has delta more entries than ids.
UpsertArgs(n, which, delta) ==
    [ids |-> [j \in 1..n |-> ItemChars[j]],
     dense_vectors |->
        [j \in 1..(IF which = 1 THEN n + delta ELSE n) |-> <<j, j + 1>>],
     sparse_vectors |->
        [j \in 1..(IF which = 2 THEN n + delta ELSE n) |->
            [indices |-> <<j>>, values |-> <<1>>]],
     metadata |->
        [j \in 1..(IF which = 3 THEN n + delta ELSE n) |-> [row |-> j]]]

UpsertInputs ==
    {UpsertArgs(n, which, delta) :
        n \in 0..MaxVectors, which \in 1..3, delta \in {-1, 0, 1}}

InitUpsert ==
    /\ ALLOW_OCR = TRUE
    /\ MAX_OCR_PAGES = 20
    /\ total_pdfs = 0
    /\ page_count = 0
    /\ i = 0
    /\ ocr_used = 0
    /\ records = <<>>
    /\ page = NoPage
    /\ txt = <<>>
    /\ is_ocr = FALSE
    /\ pc = "upsert_called"
    /\ cur = NoCur
    /\ trace = <<>>
    /\ ocr_calls = 0
    /\ items = <<>>
    /\ cols = NoSplit(<<>>)
    /\ NoRowCall
    /\ NoIngestCall
    /\ NoS3Call
    /\ NoCleanCall
    /\ \E a \in UpsertInputs :
         /\ ids = a.ids
         /\ dense_vectors = a.dense_vectors
         /\ sparse_vectors = a.sparse_vectors
         /\ metadata = a.metadata
    /\ batch_size \in 1..MaxBatch
    /\ sent = <<>>

\* The length check without the metadata list.
CheckLengthsWithoutMetadata ==
    /\ pc = "upsert_called"
    /\ pc' = IF /\ Len(dense_vectors) = Len(ids)
                /\ Len(ids) = Len(sparse_vectors)
             THEN "upsert_loop" ELSE "upsert_ValueError"
    /\ i' = 0
    /\ UNCHANGED <<ingestVars, s3Vars>>
    /\ UNCHANGED <<rowVars, cleanVars, upsertVars>>
    /\ UNCHANGED <<ALLOW_OCR, MAX_OCR_PAGES, total_pdfs, page_count,
                   ocr_used, records, page, txt, is_ocr, cur, trace,
                   ocr_calls, items, cols>>

\* Lines 68-74: the length check, then the loop starts at i = 0.
CheckLengths ==
    /\ pc = "upsert_called"
    /\ pc' = IF /\ Len(dense_vectors) = Len(ids)
                /\ Len(ids) = Len(sparse_vectors)
                /\ Len(sparse_vectors) = Len(metadata)
             THEN "upsert_loop" ELSE "upsert_ValueError"
    /\ i' = 0
    /\ UNCHANGED <<ingestVars, s3Vars>>
    /\ UNCHANGED <<rowVars, cleanVars, upsertVars>>
    /\ UNCHANGED <<ALLOW_OCR, MAX_OCR_PAGES, total_pdfs, page_count,
                   ocr_used, records, page, txt, is_ocr, cur, trace,
                   ocr_calls, items, cols>>

\* s[lo : hi] for 0 <= lo
Slice(s, lo, hi) ==
    [j \in 1..(IF hi < Len(s) THEN hi - lo ELSE Len(s) - lo) |-> s[lo + j]]

\* The batch of lines 77-91 for the slices starting at i.
Batch ==
    LET batch_ids == Slice(ids, i, i + batch_size)
        batch_dense == Slice(dense_vectors, i, i + batch_size)
        batch_sparse == Slice(sparse_vectors, i, i + batch_size)
        batch_meta == Slice(metadata, i, i + batch_size)
    IN  [j \in 1..Len(batch_ids) |->
            [id |-> batch_ids[j], values |-> batch_dense[j],
             sparse_values |-> batch_sparse[j], metadata |-> batch_meta[j]]]

\* One iteration with a batch that is sent only when it is full.
SendBatchOnlyFull ==
    /\ pc = "upsert_loop"
    /\ i < Len(ids)
    /\ sent' = IF Len(Batch) = batch_size THEN Append(sent, Batch) ELSE sent
    /\ i' = i + batch_size
    /\ UNCHANGED <<ingestVars, s3Vars>>
    /\ UNCHANGED <<rowVars, cleanVars, ids, dense_vectors, sparse_vectors,
                   metadata, batch_size>>
    /\ UNCHANGED <<ALLOW_OCR, MAX_OCR_PAGES, total_pdfs, page_count,
                   ocr_used, records, page, txt, is_ocr, pc, cur, trace,
                   ocr_calls, items, cols>>

\* One iteration of the loop of lines 74-94.
SendBatch ==
    /\ pc = "upsert_loop"
    /\ i < Len(ids)
    /\ sent' = IF Batch # <<>> THEN Append(sent, Batch) ELSE sent
    /\ i' = i + batch_size
    /\ UNCHANGED <<ingestVars, s3Vars>>
    /\ UNCHANGED <<rowVars, cleanVars, ids, dense_vectors, sparse_vectors,
                   metadata, batch_size>>
    /\ UNCHANGED <<ALLOW_OCR, MAX_OCR_PAGES, total_pdfs, page_count,
                   ocr_used, records, page, txt, is_ocr, pc, cur, trace,
                   ocr_calls, items, cols>>

\* Line 96: the range is exhausted and the index's statistics are
\* returned.
ReturnStats ==
    /\ pc = "upsert_loop"
    /\ i >= Len(ids)
    /\ pc' = "returned"
    /\ UNCHANGED <<ingestVars, s3Vars>>
    /\ UNCHANGED <<rowVars, cleanVars, upsertVars>>
    /\ UNCHANGED <<ALLOW_OCR, MAX_OCR_PAGES, total_pdfs, page_count, i,
                   ocr_used, records, page, txt, is_ocr, cur, trace,
                   ocr_calls, items, cols>>

NextUpsert == CheckLengths \/ SendBatch \/ ReturnStats

SpecUpsert == InitUpsert /\ [][NextUpsert]_vars

\* ceil(n / b)
CeilDiv(n, b) == (n + b - 1) \div b

\* The j-th vector of the input.
InputVector(j) ==
    [id |-> ids[j], values |-> dense_vectors[j],
     sparse_values |-> sparse_vectors[j], metadata |-> metadata[j]]

\* C20: for lists of equal length n and batch_size b >= 1, index.upsert is
\* called exactly ceil(n / b) times, every call carries between 1 and b
\* vectors, the last one n - b * (ceil(n / b) - 1), and the batches one
\* after the other are the input: the j-th vector sent has the j-th id,
\* dense vector, sparse vector and metadata.
C20_BatchesCoverInputInOrder ==
    pc = "returned" =>
      /\ Len(sent) = CeilDiv(Len(ids), batch_size)
      /\ \A c \in 1..Len(sent) :
           /\ 1 <= Len(sent[c])
           /\ Len(sent[c]) <= batch_size
      /\ Len(sent) > 0 =>
           Len(sent[Len(sent)]) = Len(ids) - batch_size * (Len(sent) - 1)
      /\ Concat(sent) = [j \in 1..Len(ids) |-> InputVector(j)]

\* Five vectors in batches of two: three calls, the last with one vector.
C20_Witness ==
    /\ pc = "returned"
    /\ Len(ids) = 5
    /\ batch_size = 2
    /\ Len(sent) = 3
    /\ Len(sent[3]) = 1


(***************************************************************************)
(* build_vectors_from_df (rag_ingest/upsert.py lines 7-55), next to        *)
(* upsert.  A row of the DataFrame is a record of strings.                 *)
(***************************************************************************)
\* The j-th row: every other row has no "county" column value to format.
DfRow(j) ==
    IF j % 2 = 1 THEN [county |-> ItemChars[j], chunk_text |-> <<ItemChars[j]>>]
    ELSE [chunk_text |-> <<ItemChars[j]>>]

\* The arguments for a DataFrame of n rows, with dd more dense and ds more
\* sparse embeddings than rows.
BuildArgs(n, dd, ds) ==
    [df |-> [j \in 1..n |-> DfRow(j)],
     dense_embeddings |-> [j \in 1..(n + dd) |-> <<j, j + 1>>],
     sparse_embeddings |->
        [j \in 1..(n + ds) |-> [indices |-> <<j>>, values |-> <<1>>]]]

BuildInputs ==
    {BuildArgs(n, dd, ds) :
        n \in 0..MaxVectors, dd \in {-1, 0, 1}, ds \in {-1, 0, 1}}

InitBuild ==
    /\ ALLOW_OCR = TRUE
    /\ MAX_OCR_PAGES = 20
    /\ total_pdfs = 0
    /\ page_count = 0
    /\ i = 0
    /\ ocr_used = 0
    /\ records = <<>>
    /\ page = NoPage
    /\ txt = <<>>
    /\ is_ocr = FALSE
    /\ pc = "build_called"
    /\ cur = NoCur
    /\ trace = <<>>
    /\ ocr_calls = 0
    /\ items = <<>>
    /\ cols = NoSplit(<<>>)
    /\ NoRowCall
    /\ NoCleanCall
    /\ NoS3Call
    /\ \E a \in BuildInputs :
         /\ df = a.df
         /\ dense_embeddings = a.dense_embeddings
         /\ sparse_embeddings = a.sparse_embeddings
    /\ vectors = <<>>
    /\ all_chunks = <<>>
    /\ embed_calls = <<>>
    /\ ids = <<>>
    /\ dense_vectors = <<>>
    /\ sparse_vectors = <<>>
    /\ metadata = <<"county", "page">>
    /\ batch_size = 100
    /\ sent = <<>>

\* id_template.format(**row, idx=idx) for "{county}#chunk{idx}", and
\* f"chunk{idx}" when the row has no such column; idx counts from 0.
IdStr(row, idx) ==
    IF "county" \in DOMAIN row THEN <<row.county, "#chunk", idx>>
    ELSE <<"chunk", idx>>

\* {col: str(row.get(col, "")) for col in metadata}
MetaOf(row, columns) ==
    [c \in {columns[q] : q \in 1..Len(columns)} |->
        IF c \in DOMAIN row THEN row[c] ELSE ""]

\* build_vectors_from_df: the length check of lines 30-31, then one vector
\* and one id per row.
BuildVectors ==
    /\ pc = "build_called"
    /\ IF /\ Len(df) = Len(dense_embeddings)
          /\ Len(dense_embeddings) = Len(sparse_embeddings)
       THEN /\ vectors' = [j \in 1..Len(df) |->
                             [id |-> IdStr(df[j], j - 1),
                              values |-> dense_embeddings[j],
                              sparse_values |-> sparse_embeddings[j],
                              metadata |-> MetaOf(df[j], metadata)]]
            /\ ids' = [j \in 1..Len(df) |-> IdStr(df[j], j - 1)]
            /\ pc' = "built"
       ELSE /\ pc' = "build_ValueError"
            /\ UNCHANGED <<vectors, ids>>
    /\ UNCHANGED <<rowVars, cleanVars, s3Vars>>
    /\ UNCHANGED <<df, dense_embeddings, sparse_embeddings, all_chunks,
                   embed_calls, dense_vectors, sparse_vectors, metadata,
                   batch_size, sent>>
    /\ UNCHANGED <<ALLOW_OCR, MAX_OCR_PAGES, total_pdfs, page_count, i,
                   ocr_used, records, page, txt, is_ocr, cur, trace,
                   ocr_calls, items, cols>>

InitVectors == InitUpsert \/ InitBuild

NextVectors == CheckLengths \/ SendBatch \/ ReturnStats \/ BuildVectors

SpecVectors == InitVectors /\ [][NextVectors]_vars

\* The four lists given to upsert have one length.
UpsertLengthsAgree ==
    /\ Len(ids) = Len(dense_vectors)
    /\ Len(ids) = Len(sparse_vectors)
    /\ Len(ids) = Len(metadata)

\* The DataFrame and the two lists of embeddings have one length.
BuildLengthsAgree ==
    /\ Len(df) = Len(dense_embeddings)
    /\ Len(df) = Len(sparse_embeddings)

\* C21: upsert raises ValueError whenever its four lists do not all have
\* the same length, and build_vectors_from_df whenever the DataFrame and
\* the two lists of embeddings do not; after the error no index.upsert call
\* has been made and nothing is returned.
C21_LengthMismatchRaises ==
    /\ pc \in {"upsert_loop", "returned", "upsert_ValueError"} =>
         /\ ~UpsertLengthsAgree <=> pc = "upsert_ValueError"
         /\ pc = "upsert_ValueError" => sent = <<>>
    /\ pc \in {"built", "build_ValueError"} =>
         /\ ~BuildLengthsAgree <=> pc = "build_ValueError"
         /\ pc = "build_ValueError" => vectors = <<>> /\ ids = <<>>

\* upsert has raised for two ids, dense vectors, sparse vectors and one
\* metadata entry.
C21_Witness ==
    /\ pc = "upsert_ValueError"
    /\ Len(ids) = 2
    /\ Len(dense_vectors) = 2
    /\ Len(sparse_vectors) = 2
    /\ Len(metadata) = 1
    /\ sent = <<>>

\* build_vectors_from_df has raised for three rows and two dense
\* embeddings.
C21_WitnessBuild ==
    /\ pc = "build_ValueError"
    /\ Len(df) = 3
    /\ Len(dense_embeddings) = 2
    /\ vectors = <<>>


(***************************************************************************)
(* embed_dense (rag_ingest/embed_dense.py).  The embedding service is the  *)
(* environment: a call either raises or answers with one embedding per     *)
(* input.  embed_calls records every call with its inputs and outcome.     *)
(***************************************************************************)
MaxChunks == 5

\* The embedding the service computes for one text.
EmbeddingOf(t) == <<"vec">> \o t

\* The answer of pc.inference.embed for a batch of texts.
EmbedResult(chunk_batch) ==
    [j \in 1..Len(chunk_batch) |-> [values |-> EmbeddingOf(chunk_batch[j])]]

\* [x["values"] for x in result]
ValuesOf(res) == [j \in 1..Len(res) |-> res[j].values]

InitEmbed ==
    /\ ALLOW_OCR = TRUE
    /\ MAX_OCR_PAGES = 20
    /\ total_pdfs = 0
    /\ page_count = 0
    /\ i = 0
    /\ ocr_used = 0
    /\ records = <<>>
    /\ page = NoPage
    /\ txt = <<>>
    /\ is_ocr = FALSE
    /\ pc = "embed_called"
    /\ cur = NoCur
    /\ trace = <<>>
    /\ ocr_calls = 0
    /\ items = <<>>
    /\ cols = NoSplit(<<>>)
    /\ NoRowCall
    /\ NoCleanCall
    /\ NoS3Call
    /\ \E n \in 0..MaxChunks : df = [j \in 1..n |-> DfRow(j)]
    /\ dense_embeddings = <<>>
    /\ sparse_embeddings = <<>>
    /\ vectors = <<>>
    /\ all_chunks = <<>>
    /\ embed_calls = <<>>
    /\ ids = <<>>
    /\ dense_vectors = <<>>
    /\ sparse_vectors = <<>>
    /\ metadata = <<>>
    /\ batch_size \in 1..MaxBatch
    /\ sent = <<>>

embedFrame ==
    /\ UNCHANGED <<rowVars, cleanVars, s3Vars>>
    /\ UNCHANGED <<df, sparse_embeddings, vectors, ids, dense_vectors,
                   sparse_vectors, metadata, batch_size, sent>>
    /\ UNCHANGED <<ALLOW_OCR, MAX_OCR_PAGES, total_pdfs, page_count,
                   ocr_used, records, page, txt, is_ocr, cur, trace,
                   ocr_calls, items, cols>>

\* Lines 26-27: the text column as a list, no embeddings yet.
ReadChunks ==
    /\ pc = "embed_called"
    /\ all_chunks' = [j \in 1..Len(df) |-> df[j].chunk_text]
    /\ dense_embeddings' = <<>>
    /\ i' = 0
    /\ pc' = "embed_loop"
    /\ UNCHANGED embed_calls
    /\ embedFrame

\* all_chunks[i:i+batch_size]
ChunkBatch == Slice(all_chunks, i, i + batch_size)

\* Lines 32-41: the first attempt for the batch at i.  When the call raises,
\* the except clause is entered and nothing has been appended.
EmbedBatch ==
    /\ pc = "embed_loop"
    /\ i < Len(all_chunks)
    /\ \E ok \in BOOLEAN :
         /\ embed_calls' =
              Append(embed_calls, [inputs |-> ChunkBatch, ok |-> ok])
         /\ IF ok
            THEN /\ dense_embeddings' =
                      dense_embeddings \o ValuesOf(EmbedResult(ChunkBatch))
                 /\ i' = i + batch_size
                 /\ pc' = "embed_loop"
            ELSE /\ pc' = "embed_except"
                 /\ UNCHANGED <<dense_embeddings, i>>
    /\ UNCHANGED all_chunks
    /\ embedFrame

\* The retry that forgets its answer.
RetryBatchDropsResult ==
    /\ pc = "embed_except"
    /\ \E ok \in BOOLEAN :
         /\ embed_calls' =
              Append(embed_calls, [inputs |-> ChunkBatch, ok |-> ok])
         /\ IF ok
            THEN /\ dense_embeddings' = dense_embeddings
                 /\ i' = i + batch_size
                 /\ pc' = "embed_loop"
            ELSE /\ pc' = "embed_raised"
                 /\ UNCHANGED <<dense_embeddings, i>>
    /\ UNCHANGED all_chunks
    /\ embedFrame

\* Lines 43-50: the single retry of the same batch; it is not inside a try,
\* so a second exception leaves embed_dense.
RetryBatch ==
    /\ pc = "embed_except"
    /\ \E ok \in BOOLEAN :
         /\ embed_calls' =
              Append(embed_calls, [inputs |-> ChunkBatch, ok |-> ok])
         /\ IF ok
            THEN /\ dense_embeddings' =
                      dense_embeddings \o ValuesOf(EmbedResult(ChunkBatch))
                 /\ i' = i + batch_size
                 /\ pc' = "embed_loop"
            ELSE /\ pc' = "embed_raised"
                 /\ UNCHANGED <<dense_embeddings, i>>
    /\ UNCHANGED all_chunks
    /\ embedFrame

\* Line 51: the range is exhausted.
ReturnEmbeddings ==
    /\ pc = "embed_loop"
    /\ i >= Len(all_chunks)
    /\ pc' = "embed_returned"
    /\ UNCHANGED <<i, all_chunks, dense_embeddings, embed_calls>>
    /\ embedFrame

NextEmbed == ReadChunks \/ EmbedBatch \/ RetryBatch \/ ReturnEmbeddings

SpecEmbed == InitEmbed /\ [][NextEmbed]_vars

\* The number of calls among the first n that raised.
RECURSIVE FailedCalls(_, _)
FailedCalls(calls, n) ==
    IF n = 0 THEN 0
    ELSE FailedCalls(calls, n - 1) + (IF calls[n].ok THEN 0 ELSE 1)

\* The calls that answered, in order.
AnsweredCalls(calls) == SelectSeq(calls, LAMBDA c : c.ok)

\* C22: embed_dense embeds the rows in batches of up to batch_size and
\* retries a batch once when its call raises: having returned, with f
\* batches whose first attempt failed, it has made ceil(n/b) + f calls,
\* every failed call is followed by a call with the same inputs, and the
\* result holds the n rows' embeddings in row order; when the retry raises
\* too, embed_dense stops with that exception after two failed calls for
\* the same batch.
C22_BatchesRetriedOnce ==
    /\ pc = "embed_returned" =>
         /\ Len(embed_calls) =
              CeilDiv(Len(df), batch_size)
                + FailedCalls(embed_calls, Len(embed_calls))
         /\ \A c \in 1..Len(embed_calls) :
              /\ Len(embed_calls[c].inputs) \in 1..batch_size
              /\ ~embed_calls[c].ok =>
                   /\ c < Len(embed_calls)
                   /\ embed_calls[c + 1].ok
                   /\ embed_calls[c + 1].inputs = embed_calls[c].inputs
         /\ Len(AnsweredCalls(embed_calls)) = CeilDiv(Len(df), batch_size)
         /\ dense_embeddings =
              [j \in 1..Len(df) |-> EmbeddingOf(df[j].chunk_text)]
    /\ pc = "embed_raised" =>
         \E c \in 1..(Len(embed_calls) - 1) :
            /\ c + 1 = Len(embed_calls)
            /\ ~embed_calls[c].ok
            /\ ~embed_calls[c + 1].ok
            /\ embed_calls[c + 1].inputs = embed_calls[c].inputs
    /\ pc = "embed_except" =>
         /\ embed_calls # <<>>
         /\ ~embed_calls[Len(embed_calls)].ok
         /\ Len(embed_calls) = 1 \/ embed_calls[Len(embed_calls) - 1].ok

\* Five rows in batches of two, the second batch retried: four calls, five
\* embeddings.
C22_Witness ==
    /\ pc = "embed_returned"
    /\ Len(df) = 5
    /\ batch_size = 2
    /\ Len(embed_calls) = 4
    /\ ~embed_calls[2].ok
    /\ Len(dense_embeddings) = 5

\* The retry of a batch has raised as well.
C22_WitnessPropagates ==
    /\ pc = "embed_raised"
    /\ Len(embed_calls) = 3
    /\ Len(dense_embeddings) = 2


(***************************************************************************)
(* load_parquet_from_s3 in prefix mode (rag_ingest/s3_loader.py lines      *)
(* 29-66).  The object store is the environment: listing is the sequence   *)
(* of pages it holds for the prefix, and the k-th list call is answered    *)
(* with the k-th page.  A page is a response dict: a function whose domain *)
(* holds the keys that are present.                                        *)
(***************************************************************************)
MaxListPages == 3

\* The q-th key of page k with the given extension segments.
S3Key(k, q, ext) == <<"file", k, q>> \o ext

\* key.endswith('.parquet')
EndsWithParquet(key) == key[Len(key)] = ".parquet"

\* The Contents of page k, by shape.
PageContents(k, shape) ==
    CASE shape = "empty" -> <<>>
      [] shape = "pq" -> <<[Key |-> S3Key(k, 1, <<".parquet">>)]>>
      [] shape = "csv" -> <<[Key |-> S3Key(k, 1, <<".csv">>)]>>
      [] shape = "tmp" -> <<[Key |-> S3Key(k, 1, <<".parquet", ".tmp">>)]>>
      [] shape = "mixed" -> <<[Key |-> S3Key(k, 1, <<".parquet">>)],
                              [Key |-> S3Key(k, 2, <<".csv">>)],
                              [Key |-> S3Key(k, 3, <<".parquet">>)]>>

PageShapes == {"absent", "empty", "pq", "csv", "tmp", "mixed"}

\* The response for page k: Contents is missing for the shape "absent";
\* trunc is "True", "False" or "absent"; a truncated page carries its token.
ListPage(k, shape, trunc) ==
    (IF shape = "absent" THEN <<>>
     ELSE ("Contents" :> PageContents(k, shape)))
    @@ (IF trunc = "absent" THEN <<>>
        ELSE ("IsTruncated" :> (trunc = "True")))
    @@ (IF trunc = "True" THEN ("NextContinuationToken" :> <<"token", k>>)
        ELSE <<>>)

\* continuation_token = None: no ContinuationToken is passed.
NoToken == <<>>

\* The listings of n pages: the last page is not truncated.
Listings(n) ==
    {[k \in 1..n |-> ListPage(k, sh[k], tr[k])] :
        sh \in [1..n -> PageShapes],
        tr \in {t \in [1..n -> {"True", "False", "absent"}] : t[n] # "True"}}

\* The rows of the parquet file stored under a key.
FileRows(key) == [r \in 1..key[3] |-> <<key, r>>]

InitS3 ==
    /\ ALLOW_OCR = TRUE
    /\ MAX_OCR_PAGES = 20
    /\ total_pdfs = 0
    /\ page_count = 0
    /\ i = 0
    /\ ocr_used = 0
    /\ records = <<>>
    /\ page = NoPage
    /\ txt = <<>>
    /\ is_ocr = FALSE
    /\ pc = "s3_listing"
    /\ cur = NoCur
    /\ trace = <<>>
    /\ ocr_calls = 0
    /\ items = <<>>
    /\ cols = NoSplit(<<>>)
    /\ NoRowCall
    /\ NoCleanCall
    /\ NoUpsertCall
    /\ NoIngestCall
    /\ \E n \in 1..MaxListPages : listing \in Listings(n)
    /\ parquet_files = <<>>
    /\ continuation_token = NoToken
    /\ list_calls = <<>>
    /\ get_calls = <<>>
    /\ result = <<>>

s3Frame ==
    /\ UNCHANGED <<rowVars, cleanVars, upsertVars, ingestVars>>
    /\ UNCHANGED <<ALLOW_OCR, MAX_OCR_PAGES, total_pdfs, page_count,
                   ocr_used, records, page, txt, is_ocr, cur, trace,
                   ocr_calls, items, cols>>

\* Lines 47-50: the keys of a response that end in .parquet, in order.
ParquetKeys(response) ==
    LET keys == [q \in 1..Len(response["Contents"]) |->
                    response["Contents"][q].Key]
    IN  SelectSeq(keys, EndsWithParquet)

\* Lines 32-55, one pass of the while loop: the list call with the token
\* of the previous response, the Contents test, the .parquet keys, and the
\* IsTruncated test.
ListObjects ==
    /\ pc = "s3_listing"
    /\ \E response \in {listing[Len(list_calls) + 1]} :
         /\ list_calls' = Append(list_calls, continuation_token)
         /\ IF "Contents" \notin DOMAIN response
            THEN /\ pc' = "s3_FileNotFoundError"
                 /\ UNCHANGED <<parquet_files, continuation_token>>
            ELSE /\ parquet_files' = parquet_files \o ParquetKeys(response)
                 /\ IF "IsTruncated" \in DOMAIN response
                          /\ response["IsTruncated"] = TRUE
                    THEN /\ continuation_token' =
                              IF "NextContinuationToken" \in DOMAIN response
                              THEN response["NextContinuationToken"]
                              ELSE NoToken
                         /\ pc' = "s3_listing"
                    ELSE /\ pc' = "s3_listed"
                         /\ UNCHANGED continuation_token
    /\ UNCHANGED <<listing, get_calls, result, i>>
    /\ s3Frame

\* Lines 57-60: no parquet key was listed, or the fetch loop starts.
CheckFound ==
    /\ pc = "s3_listed"
    /\ pc' = IF parquet_files = <<>> THEN "s3_FileNotFoundError"
             ELSE "s3_fetching"
    /\ i' = 0
    /\ UNCHANGED s3Vars
    /\ s3Frame

\* Lines 61-64: get_object and read_parquet for the next key; result holds
\* the frames read so far (dfs).
GetObject ==
    /\ pc = "s3_fetching"
    /\ i < Len(parquet_files)
    /\ get_calls' = Append(get_calls, parquet_files[i + 1])
    /\ result' = Append(result, FileRows(parquet_files[i + 1]))
    /\ i' = i + 1
    /\ UNCHANGED <<pc, listing, parquet_files, continuation_token,
                   list_calls>>
    /\ s3Frame

\* Line 66: pl.concat(dfs, how='vertical').
ConcatFrames ==
    /\ pc = "s3_fetching"
    /\ i >= Len(parquet_files)
    /\ result' = Concat(result)
    /\ pc' = "s3_returned"
    /\ UNCHANGED <<i, listing, parquet_files, continuation_token,
                   list_calls, get_calls>>
    /\ s3Frame

NextS3 == ListObjects \/ CheckFound \/ GetObject \/ ConcatFrames

\* The function runs to its end: a single synchronous thread.
SpecS3 == InitS3 /\ [][NextS3]_vars /\ WF_vars(NextS3)


\* A response that announces more pages.
IsTruncatedPage(response) ==
    "IsTruncated" \in DOMAIN response /\ response["IsTruncated"] = TRUE

\* The position of the first page that is not truncated.
FirstFinalPage(ls) ==
    CHOOSE k \in 1..Len(ls) :
        /\ ~IsTruncatedPage(ls[k])
        /\ \A j \in 1..(k - 1) : IsTruncatedPage(ls[j])

\* The keys ending in .parquet on the first n pages, in listing order.
RECURSIVE ListedParquet(_, _)
ListedParquet(ls, n) ==
    IF n = 0 THEN <<>>
    ELSE ListedParquet(ls, n - 1)
           \o (IF "Contents" \in DOMAIN ls[n] THEN ParquetKeys(ls[n])
               ELSE <<>>)

\* The keys ending in .parquet that the store lists for the prefix.
AllListedParquet == ListedParquet(listing, FirstFinalPage(listing))

\* The token a list call is expected to carry.
ExpectedToken(ls, c) ==
    IF c = 1 THEN NoToken ELSE ls[c - 1]["NextContinuationToken"]

\* The rows of the given files, one file after the other.
RECURSIVE RowsOfFiles(_, _)
RowsOfFiles(keys, n) ==
    IF n = 0 THEN <<>> ELSE RowsOfFiles(keys, n - 1) \o FileRows(keys[n])

\* The sum of the files' row counts.
RECURSIVE RowCountOfFiles(_, _)
RowCountOfFiles(keys, n) ==
    IF n = 0 THEN 0 ELSE RowCountOfFiles(keys, n - 1) + Len(FileRows(keys[n]))

S3Done == pc \in {"s3_returned", "s3_FileNotFoundError"}

\* What C23 says of a finished call.
ListedThenFetched ==
    /\ Len(list_calls) = FirstFinalPage(listing)
    /\ \A c \in 1..Len(list_calls) :
         list_calls[c] = ExpectedToken(listing, c)
    /\ get_calls = AllListedParquet
    /\ AllListedParquet # <<>> =>
         /\ pc = "s3_returned"
         /\ result = RowsOfFiles(AllListedParquet, Len(AllListedParquet))
         /\ Len(result)
              = RowCountOfFiles(AllListedParquet, Len(AllListedParquet))

\* C23: in prefix mode load_parquet_from_s3 lists while the response is
\* truncated, passing the previous response's NextContinuationToken, stops
\* at the first response that is not truncated after one list call per
\* page, then fetches every listed key ending in .parquet once, in listing
\* order, and returns the concatenation of the files.
C23_ListsEveryPageThenFetchesListedKeys == S3Done => ListedThenFetched

\* Every page up to the first that is not truncated has a Contents entry.
EveryPageHasContents ==
    \A k \in 1..FirstFinalPage(listing) : "Contents" \in DOMAIN listing[k]

\* The statement of C23 for listings whose pages all have Contents.
C23_WithContentsOnEveryPage ==
    (S3Done /\ EveryPageHasContents) => ListedThenFetched

\* The listing loop ends, and with it the call.
C23_CallTerminates == <>S3Done

\* Never more list calls than pages up to the first that is not truncated.
C23_OneListCallPerPage == Len(list_calls) <= FirstFinalPage(listing)

\* Two truncated pages and a last one, four parquet files fetched.
C23_WitnessPagination ==
    /\ pc = "s3_returned"
    /\ Len(list_calls) = 3
    /\ Len(get_calls) = 4

\* A page without Contents after a page that listed a parquet file.
C23_WitnessAborted ==
    /\ pc = "s3_FileNotFoundError"
    /\ Len(list_calls) = 2
    /\ parquet_files # <<>>

\* C24: in prefix mode load_parquet_from_s3 raises FileNotFoundError
\* exactly when no listed key ends in .parquet (an empty or absent Contents
\* list included), and then it has fetched no object.
C24_RaisesIffNoParquetListed ==
    S3Done =>
       /\ pc = "s3_FileNotFoundError" <=> AllListedParquet = <<>>
       /\ pc = "s3_FileNotFoundError" => get_calls = <<>>

\* The part of C24 that holds on every listing: without a listed parquet
\* key the call raises, and a call that raises has fetched nothing.
C24_RaisesWhenNoParquetListed ==
    S3Done =>
       /\ AllListedParquet = <<>> => pc = "s3_FileNotFoundError"
       /\ pc = "s3_FileNotFoundError" => get_calls = <<>>


(***************************************************************************)
(* The OCR cap of one document, checked under Spec.                        *)
(***************************************************************************)
\* The number of records among the first n with is_ocr = true.
RECURSIVE OcrRecords(_, _)
OcrRecords(recs, n) ==
    IF n = 0 THEN 0
    ELSE OcrRecords(recs, n - 1) + (IF recs[n].is_ocr THEN 1 ELSE 0)

\* C25: in the record list of one document the number of records with
\* is_ocr = true never exceeds MAX_OCR_PAGES, whatever the pages and the
\* OCR outcomes.
C25_OcrRecordsWithinCap ==
    OcrRecords(records, Len(records)) <= MAX_OCR_PAGES

\* With a cap of one, the first page was replaced by OCR and the second, a
\* scanned page as well, was emitted without OCR.
C25_Witness ==
    /\ MAX_OCR_PAGES = 1
    /\ Len(records) = 2
    /\ records[1].is_ocr
    /\ ~records[2].is_ocr
    /\ page = ScannedPage
    /\ trace[2].state = "NotNeeded"

\* The number of pages among the first n of the trace in the given states.
RECURSIVE PagesInState(_, _, _)
PagesInState(tr, n, states) ==
    IF n = 0 THEN 0
    ELSE PagesInState(tr, n - 1, states)
           + (IF tr[n].state \in states THEN 1 ELSE 0)

\* 1 when the page in hand has been through the engine, else 0.
CurrentPageCalls ==
    IF pc = "emit" /\ cur.state \in {"Attempted", "Replaced"} THEN 1 ELSE 0

\* C26 as claimed: within one document the OCR engine is invoked on at most
\* MAX_OCR_PAGES pages, discarded results included.
C26_OcrCallsWithinCap == ocr_calls <= MAX_OCR_PAGES

\* C26, amended: the engine is invoked at most once per page, exactly on
\* the pages whose attempt was discarded or replaced the text; at most
\* MAX_OCR_PAGES pages are replaced, every invocation is made while fewer
\* than MAX_OCR_PAGES pages have been replaced, and discarded attempts are
\* not counted, so the invocations are bounded by the pages only.
C26_OnlyReplacedPagesCountTowardCap ==
    /\ ocr_calls = PagesInState(trace, Len(trace), {"Attempted", "Replaced"})
                     + CurrentPageCalls
    /\ PagesInState(trace, Len(trace), {"Replaced"})
         + (IF pc = "emit" /\ cur.state = "Replaced" THEN 1 ELSE 0)
         <= MAX_OCR_PAGES
    /\ \A n \in 1..Len(trace) :
         trace[n].state \in {"Attempted", "Replaced"} =>
            trace[n].checked < MAX_OCR_PAGES
    /\ ocr_calls <= Len(trace) + CurrentPageCalls
    /\ pc \in {"loop", "ocr", "emit", "returned", "failed"} =>
         ocr_calls <= ocr_used + PagesInState(trace, Len(trace), {"Attempted"})
                        + (IF pc = "emit" /\ cur.state = "Attempted"
                           THEN 1 ELSE 0)

\* With a cap of one the engine has run on two pages of one document, both
\* results discarded.
C26_Witness ==
    /\ MAX_OCR_PAGES = 1
    /\ ocr_calls = 2
    /\ ocr_used = 0
    /\ Len(trace) = 2
    /\ trace[1].state = "Attempted"
    /\ trace[2].state = "Attempted"


(***************************************************************************)
(* No fragment lost or duplicated, checked under SpecLayout.               *)
(***************************************************************************)
\* How often x occurs in the list.
Occurrences(x, its) == Cardinality({j \in 1..Len(its) : its[j] = x})

\* Two lists with the same elements, each as often in one as in the other.
SameFragments(a, b) ==
    /\ Len(a) = Len(b)
    /\ \A j \in 1..Len(a) : Occurrences(a[j], a) = Occurrences(a[j], b)

\* its is l and r merged: every element of its goes to exactly one of
\* them, and each keeps the order the elements have in its.
RECURSIVE IsMergeOf(_, _, _)
IsMergeOf(its, l, r) ==
    IF its = <<>> THEN l = <<>> /\ r = <<>>
    ELSE \/ l # <<>> /\ l[1] = its[1] /\ IsMergeOf(Tail(its), Tail(l), r)
         \/ r # <<>> /\ r[1] = its[1] /\ IsMergeOf(Tail(its), l, Tail(r))

\* The texts of a group in reading order.
TextsInOrder(its) ==
    Bind(_sort_items(its), LAMBDA srt : [j \in 1..Len(srt) |-> srt[j].text])

\* The texts of the page in output order, an empty text between the two
\* columns of a split.
TextsOfPage(its, c) ==
    IF c.gutter = <<>> THEN TextsInOrder(its)
    ELSE TextsInOrder(c.left) \o << <<>> >> \o TextsInOrder(c.right)

\* No text holds a line break, and the first does not start with
\* whitespace.
PlainTexts(texts) ==
    /\ \A j \in 1..Len(texts) : \A q \in 1..Len(texts[j]) :
          texts[j][q] \notin LineBreaks
    /\ texts # <<>> => texts[1][1] \notin Whitespace

\* The first two statements of C27: _sort_items permutes each group it is
\* given, and a split parts the fragments into two lists that keep their
\* order.
NothingLostOrDuplicated ==
    /\ SameFragments(_sort_items(items), items)
    /\ cols.gutter # <<>> =>
         /\ SameFragments(_sort_items(cols.left), cols.left)
         /\ SameFragments(_sort_items(cols.right), cols.right)
         /\ Len(cols.left) + Len(cols.right) = Len(items)
         /\ IsMergeOf(items, cols.left, cols.right)
    /\ cols.gutter = <<>> => cols.left = items /\ cols.right = <<>>

\* C27 as claimed: no fragment is lost or duplicated by the split and the
\* row assembly, and the lines of the page text are exactly the collected
\* fragments' texts, each once.
C27_LinesAreExactlyFragmentTexts ==
    pc = "output" =>
       /\ NothingLostOrDuplicated
       /\ SameFragments(SplitLines(txt),
                        [j \in 1..Len(items) |-> items[j].text])

\* C27, amended: no fragment is lost or duplicated by the split and the
\* row assembly, and the page text is the fragments' texts, each once in
\* reading order, joined by newlines, with an empty line between the two
\* columns of a split and the whitespace at its start removed; its lines
\* are these texts (and the empty line of a split) when no text holds a
\* line break and the first does not start with whitespace.
C27_TextIsFragmentTextsJoined ==
    pc = "output" =>
       /\ NothingLostOrDuplicated
       /\ \A texts \in {TextsOfPage(items, cols)} :
            /\ txt = Strip(Join(<<"\n">>, texts))
            /\ PlainTexts(texts) => SplitLines(txt) = texts

\* A split page: every fragment on one side, and one line more than
\* fragments in the page text.
C27_Witness ==
    /\ pc = "output"
    /\ cols.gutter # <<>>
    /\ Len(items) >= 8
    /\ Len(cols.left) + Len(cols.right) = Len(items)
    /\ PlainTexts(TextsOfPage(items, cols))
    /\ Len(SplitLines(txt)) = Len(items) + 1

\* A page with a fragment whose text holds a line break.
C27_WitnessTwoLineFragment ==
    /\ pc = "output"
    /\ Len(items) = 1
    /\ Len(SplitLines(txt)) = 2


(***************************************************************************)
(* What the cleaner leaves alone, checked under SpecCleaner.               *)
(***************************************************************************)
\* The list without the elements at the positions in J.
Without(ls, J) == SelectSeq(Indices(Len(ls)), LAMBDA j : j \notin J)

\* s.split("\n"): the pieces of s between its "\n" characters.
SplitOnNewline(s) ==
    LET breaks == SelectSeq(Indices(Len(s)), LAMBDA j : s[j] = "\n")
        m == Len(breaks)
        From(k) == IF k = 1 THEN 1 ELSE breaks[k - 1] + 1
        To(k) == IF k = m + 1 THEN Len(s) ELSE breaks[k] - 1
    IN  [k \in 1..(m + 1) |-> SubSeq(s, From(k), To(k))]

\* C28: remove_orphan_enumerators removes bare-enumerator lines only:
\* the kept lines are the input lines without some lines that are all bare
\* enumerators, in the same order, so every other line, the blank ones
\* included, is kept; the returned text is the kept lines, one per line.
C28_OnlyBareEnumeratorsRemoved ==
    pc = "output" =>
      \A ls \in {SplitLines(text)} :
        /\ \E J \in SUBSET (1..Len(ls)) :
             /\ \A j \in J : is_bare_enum(ls[j])
             /\ out = [q \in 1..Len(Without(ls, J)) |-> ls[Without(ls, J)[q]]]
        /\ \A j \in 1..Len(ls) :
             ~is_bare_enum(ls[j]) =>
                Occurrences(ls[j], out) = Occurrences(ls[j], ls)
        /\ IF out = <<>> THEN cleaned = <<>>
           ELSE SplitOnNewline(cleaned) = out

\* "A.", " ", "(1)", "" : both enumerators are removed, and the blank line
\* skipped while looking ahead from "A." and the empty last line are kept.
C28_Witness ==
    /\ pc = "output"
    /\ SplitLines(text) =
         << <<"A", ".">>, <<" ">>, <<"(", "1", ")">>, <<>> >>
    /\ out = << <<" ">>, <<>> >>
    /\ cleaned = <<" ", "\n">>


(***************************************************************************)
(* A second pass of the cleaner, checked under SpecCleaner.                *)
(***************************************************************************)
\* C29 as claimed: cleaning the cleaned text again returns the same text.
C29_CleaningIsIdempotent ==
    pc = "output" => remove_orphan_enumerators(cleaned) = cleaned

\* The kept lines end with an empty line after at least one other line.
EndsWithEmptyLine(ls) == Len(ls) >= 2 /\ ls[Len(ls)] = <<>>

\* C29, amended: after one pass every remaining bare enumerator is
\* followed by content, and a second pass over the kept lines removes
\* none of them; cleaning the cleaned text again returns the same text
\* unless the kept lines end with an empty line, and then it returns the
\* text without its last line break.
C29_SecondPassDropsOnlyLastLineBreak ==
    pc = "output" =>
      /\ \A j \in 1..Len(out) : is_bare_enum(out[j]) => ContentFollows(out, j)
      /\ CleanLines(out) = out
      /\ remove_orphan_enumerators(cleaned) =
           IF EndsWithEmptyLine(out)
           THEN SubSeq(cleaned, 1, Len(cleaned) - 1)
           ELSE cleaned

\* "cd" and an empty line: the cleaned text is "cd\n", and cleaned again
\* it is "cd".
C29_Witness ==
    /\ pc = "output"
    /\ out = << <<"c", "d">>, <<>> >>
    /\ cleaned = <<"c", "d", "\n">>
    /\ remove_orphan_enumerators(cleaned) = <<"c", "d">>

\* A kept enumerator with its content: a second pass changes nothing.
C29_WitnessFixedPoint ==
    /\ pc = "output"
    /\ out = << <<"(", "1", ")">>, <<" ">>, <<"c", "d">> >>
    /\ Len(SplitLines(text)) = 4
    /\ remove_orphan_enumerators(cleaned) = cleaned


(***************************************************************************)
(* The height of a row, checked under SpecRows.                            *)
(***************************************************************************)
\* C30 as claimed: any two fragments of one row have y values that differ
\* by at most Y_TOL.
C30_RowWithinTolerance ==
    pc = "output" =>
      \A r \in 1..Len(rows) : \A a, b \in 1..Len(rows[r]) :
         Abs(rows[r][a].y - rows[r][b].y) <= Y_TOL

\* C30, amended: in a row each fragment is at most Y_TOL below the one
\* before it in y order, and the lowest fragment of a row of n fragments
\* is at most n * Y_TOL / 2 below the highest; fragments of one row can be
\* more than Y_TOL apart.
C30_RowStepsWithinTolerance ==
    pc = "output" =>
      \A r \in 1..Len(rows) : \A ys \in {SortedYs(rows[r])} :
         /\ \A j \in 2..Len(ys) : ys[j] - ys[j - 1] <= Y_TOL
         /\ Len(ys) >= 2 => 2 * (ys[Len(ys)] - ys[1]) <= Len(ys) * Y_TOL

\* One row of the fragments at y = 0, 2 and 3 points: the first and the
\* last are 3 points apart.
C30_Witness ==
    /\ pc = "output"
    /\ Len(rows) = 1
    /\ SortedYs(rows[1]) = <<0, 2000, 3000>>

====
